---- MODULE Spec2Model ----
\* A model of the SAS7BDAT streaming reader (src/src/sas7bdat.js): the RLE row
\* decompressor, the subheader handlers, the header parser, the metadata walk
\* and the row stream (readline).
EXTENDS Integers, Sequences, FiniteSets, TLC

VARIABLES
    file,        \* the byte source handed to the constructor (never written)
    sas,         \* the fields of the SAS7BDAT instance
    properties,  \* the SASProperties instance of the current SASHeader
    last,        \* what the latest readline call returned or threw, and what it read
    hist,        \* what the readline calls returned so far
    rle_in,      \* arguments of a decompress_row call
    rle_out,     \* its outcome
    sub_in,      \* a subheader handed to a RowSize/ColumnSize handler, with the Properties it meets
    sub_out,     \* the outcome of that handler
    val_in,      \* a column format and the raw number of a value of that column
    val_out,     \* what decoding the value gave
    calls        \* the readline calls in flight: where each is suspended, and what it holds

vars == <<file, sas, properties, last, hist, rle_in, rle_out, sub_in, sub_out, val_in, val_out,
          calls>>

\* ---------------------------------------------------------------- helpers

\* JavaScript null for a field that otherwise holds a number: <<>>, and <<v>> for v.
Null == <<>>
Some(v) == <<v>>
\* ToNumber as the relational operators apply it: null counts as 0.
Num(x) == IF x = Null THEN 0 ELSE x[1]

Min(a, b) == IF a < b THEN a ELSE b
Max(a, b) == IF a > b THEN a ELSE b

\* Array.prototype.slice / Buffer.prototype.slice on non-negative bounds:
\* elements start..end-1 (0-based), clamped to the buffer.
Slice(buf, start, end) ==
    LET lo == Min(start, Len(buf))
        hi == Min(end, Len(buf))
    IN  IF hi <= lo THEN <<>> ELSE SubSeq(buf, lo + 1, hi)

Repeat(x, n) == [k \in 1..n |-> x]

NoErr == ""

\* ------------------------------------------------------- RLE decompressor

\* The outcome of decompress_row: the row buffer, or the error thrown.
RleOk(buf) == [err |-> NoErr, buf |-> buf]
RleErr(e) == [err |-> e, buf |-> <<>>]

ErrLength == "unexpected result length"
ErrControl == "unknown control byte"
ErrType == "TypeError"

\* page[k] (0-based) is undefined beyond the page.
InPage(page, k) == k >= 0 /\ k < Len(page)

\* Decompressor.to_chr of page[k]: String.fromCharCode(undefined) is "\u0000".
ChrAt(page, k) == IF InPage(page, k) THEN page[k + 1] ELSE 0

\* RleRecord with the 0x40 family repeating lo*16 + next + 17 times.
RleRecordRepeat17(page, offset, length, i) ==
    LET pos == offset + i
        byte == page[pos + 1]
        control_byte == (byte \div 16) * 16
        end_of_first_byte == byte % 16
        next == page[pos + 2]
        Short(base) ==
            LET count_of_bytes_to_copy == Min(end_of_first_byte + base, length - (i + 1))
            IN  [err |-> NoErr,
                 out |-> Slice(page, pos + 1, pos + 1 + count_of_bytes_to_copy),
                 i |-> i + count_of_bytes_to_copy]
        Fill(ch) == [err |-> NoErr, out |-> Repeat(ch, end_of_first_byte + 2), i |-> i]
        Fail(e) == [err |-> e, out |-> <<>>, i |-> i]
    IN  IF ~InPage(page, pos) THEN Fail(ErrType)
        ELSE CASE control_byte = 0 ->
                    IF i # length - 1
                    THEN IF ~InPage(page, pos + 1) THEN Fail(ErrType)
                         ELSE LET count_of_bytes_to_copy == next + 64 + end_of_first_byte * 256
                              IN  [err |-> NoErr,
                                   out |-> Slice(page, pos + 2, pos + 2 + count_of_bytes_to_copy),
                                   i |-> i + count_of_bytes_to_copy + 1]
                    ELSE [err |-> NoErr, out |-> <<>>, i |-> i]
               [] control_byte = 64 ->
                    IF ~InPage(page, pos + 1) THEN Fail(ErrType)
                    ELSE [err |-> NoErr,
                          out |-> Repeat(ChrAt(page, pos + 2), end_of_first_byte * 16 + next + 17),
                          i |-> i + 2]
               [] control_byte = 96 ->
                    IF ~InPage(page, pos + 1) THEN Fail(ErrType)
                    ELSE [err |-> NoErr,
                          out |-> Repeat(32, end_of_first_byte * 256 + next + 17),
                          i |-> i + 1]
               [] control_byte = 112 ->
                    IF ~InPage(page, pos + 1) THEN Fail(ErrType)
                    ELSE [err |-> NoErr,
                          out |-> Repeat(0, end_of_first_byte * 256 + next + 17),
                          i |-> i + 1]
               [] control_byte = 128 -> Short(1)
               [] control_byte = 144 -> Short(17)
               [] control_byte = 160 -> Short(33)
               [] control_byte = 176 -> Short(49)
               [] control_byte = 192 ->
                    [err |-> NoErr,
                     out |-> Repeat(ChrAt(page, pos + 1), end_of_first_byte + 3),
                     i |-> i + 1]
               [] control_byte = 208 -> Fill(64)
               [] control_byte = 224 -> Fill(32)
               [] control_byte = 240 -> Fill(0)
               [] OTHER -> Fail(ErrControl)

\* One record of the stream, at index i: [err, out, i], i the index after the
\* record's own "i +=" (the loop's closing "i += 1" is added by RleLoop).
\* Decompressor.to_ord of an undefined byte throws a TypeError.
RleRecord(page, offset, length, i) ==
    LET pos == offset + i
        byte == page[pos + 1]
        control_byte == (byte \div 16) * 16
        end_of_first_byte == byte % 16
        next == page[pos + 2]
        Short(base) ==
            LET count_of_bytes_to_copy == Min(end_of_first_byte + base, length - (i + 1))
            IN  [err |-> NoErr,
                 out |-> Slice(page, pos + 1, pos + 1 + count_of_bytes_to_copy),
                 i |-> i + count_of_bytes_to_copy]
        Fill(ch) == [err |-> NoErr, out |-> Repeat(ch, end_of_first_byte + 2), i |-> i]
        Fail(e) == [err |-> e, out |-> <<>>, i |-> i]
    IN  IF ~InPage(page, pos) THEN Fail(ErrType)
        ELSE CASE control_byte = 0 ->
                    IF i # length - 1
                    THEN IF ~InPage(page, pos + 1) THEN Fail(ErrType)
                         ELSE LET count_of_bytes_to_copy == next + 64 + end_of_first_byte * 256
                              IN  [err |-> NoErr,
                                   out |-> Slice(page, pos + 2, pos + 2 + count_of_bytes_to_copy),
                                   i |-> i + count_of_bytes_to_copy + 1]
                    ELSE [err |-> NoErr, out |-> <<>>, i |-> i]
               [] control_byte = 64 ->
                    IF ~InPage(page, pos + 1) THEN Fail(ErrType)
                    ELSE [err |-> NoErr,
                          out |-> Repeat(ChrAt(page, pos + 2), end_of_first_byte * 16 + next + 18),
                          i |-> i + 2]
               [] control_byte = 96 ->
                    IF ~InPage(page, pos + 1) THEN Fail(ErrType)
                    ELSE [err |-> NoErr,
                          out |-> Repeat(32, end_of_first_byte * 256 + next + 17),
                          i |-> i + 1]
               [] control_byte = 112 ->
                    IF ~InPage(page, pos + 1) THEN Fail(ErrType)
                    ELSE [err |-> NoErr,
                          out |-> Repeat(0, end_of_first_byte * 256 + next + 17),
                          i |-> i + 1]
               [] control_byte = 128 -> Short(1)
               [] control_byte = 144 -> Short(17)
               [] control_byte = 160 -> Short(33)
               [] control_byte = 176 -> Short(49)
               [] control_byte = 192 ->
                    [err |-> NoErr,
                     out |-> Repeat(ChrAt(page, pos + 1), end_of_first_byte + 3),
                     i |-> i + 1]
               [] control_byte = 208 -> Fill(64)
               [] control_byte = 224 -> Fill(32)
               [] control_byte = 240 -> Fill(0)
               [] OTHER -> Fail(ErrControl)

\* The fill control bytes: 0xD0 ('@'), 0xE0 (space), 0xF0 (NUL).
FillChar(control_byte) ==
    CASE control_byte = 208 -> 64
      [] control_byte = 224 -> 32
      [] control_byte = 240 -> 0
      [] OTHER -> -1

\* RleLoop with a fill record taking the byte after its control byte with it.
RECURSIVE RleLoopFillOperand(_, _, _, _, _)
RleLoopFillOperand(page, offset, length, i, result) ==
    LET skip == IF InPage(page, offset + i) /\ FillChar((page[offset + i + 1] \div 16) * 16) >= 0
                THEN 1 ELSE 0
        Step(r) ==
            IF r.err # NoErr THEN [err |-> r.err, out |-> <<>>]
            ELSE RleLoopFillOperand(page, offset, length, r.i + 1 + skip, result \o r.out)
    IN  IF i >= length THEN [err |-> NoErr, out |-> result]
        ELSE Step(RleRecord(page, offset, length, i))

\* The for loop over j: a record is decoded only when j has caught up with i.
RECURSIVE RleLoop(_, _, _, _, _)
RleLoop(page, offset, length, i, result) ==
    LET Step(r) ==
            IF r.err # NoErr THEN [err |-> r.err, out |-> <<>>]
            ELSE RleLoop(page, offset, length, r.i + 1, result \o r.out)
    IN  IF i >= length THEN [err |-> NoErr, out |-> result]
        ELSE Step(RleRecord(page, offset, length, i))

\* RleFinish without the test of the result's length.
RleFinishNoCheck(result, result_length) ==
    RleOk([k \in 1..Len(result) |-> result[k] % 256])

\* The closing check of decompress_row: Buffer.from(str, 'ascii') keeps one byte
\* per character (its code modulo 256).
RleFinish(result, result_length) ==
    IF Len(result) # result_length THEN RleErr(ErrLength)
    ELSE RleOk([k \in 1..Len(result) |-> result[k] % 256])

decompress_row(offset, length, result_length, page) ==
    LET Finish(r) == IF r.err # NoErr THEN RleErr(r.err) ELSE RleFinish(r.out, result_length)
    IN  Finish(RleLoop(page, offset, length, 0, <<>>))


\* ------------------------------------------------- constants of SASHeader

HEADER_SIZE == 288
PAGE_BIT_OFFSET_X86 == 16
PAGE_BIT_OFFSET_X64 == 32
SUBHEADER_POINTER_LENGTH_X86 == 12
SUBHEADER_POINTER_LENGTH_X64 == 24
SUBHEADER_POINTERS_OFFSET == 8
PAGE_META_TYPE == 0
PAGE_DATA_TYPE == 256
PAGE_MIX_TYPE == {512, 640}
PAGE_AMD_TYPE == 1024
PAGE_METC_TYPE == 16384
PAGE_COMP_TYPE == -28672
PAGE_MIX_DATA_TYPE == PAGE_MIX_TYPE \cup {PAGE_DATA_TYPE}
PAGE_META_MIX_AMD == {PAGE_META_TYPE} \cup PAGE_MIX_TYPE \cup {PAGE_AMD_TYPE}
TRUNCATED_SUBHEADER_ID == 1
COMPRESSED_SUBHEADER_ID == 4
COMPRESSED_SUBHEADER_TYPE == 1
RLE_COMPRESSION == "SASYZCRL"
RDC_COMPRESSION == "SASYZCR2"
COMPRESSION_LITERALS == <<RLE_COMPRESSION, RDC_COMPRESSION>>
\* The signatures of SUBHEADER_SIGNATURE_TO_INDEX, named by the index they map to.
SUBHEADER_INDEXES ==
    {"row_size", "column_size", "subheader_counts", "column_text", "column_name",
     "column_attributes", "format_and_label", "column_list"}
DATA_SUBHEADER_INDEX == "data"
UNDEFINED == "undefined"

ErrHeaderShort == "header too short (not a sas7bdat file?)"
ErrMagic == "magic number mismatch"
ErrBigEndian == "Big endian not supported"
ErrMetaPage == "Failed to read a meta data page from file"
ErrPage == "failed to read complete page from file"
ErrPageType == "unknown page type"
ErrNotImplemented == "NotImplementedError"
ErrRowLength == "found more than one row length subheader"
ErrRowCount == "found more than one row count subheader"
ErrColCountP1 == "found more than one col count p1 subheader"
ErrColCountP2 == "found more than one col count p2 subheader"
ErrMixCount == "found more than one mix page row count subheader"
ErrColumnCount == "found more than one column count subheader"
DuplicateErrors ==
    {ErrRowLength, ErrRowCount, ErrColCountP1, ErrColCountP2, ErrMixCount, ErrColumnCount}

\* ------------------------------------------------------- the byte source
\* A file is [size, magic_at, hdr, pages]: size in bytes, the offsets at which
\* the 32 magic bytes stand, the fields of the header, and the pages that follow
\* the header. A page is [type, block_count, subs, rows_base, rl, nrows]: its
\* header words, the subheaders its pointer array names, and the nrows row
\* records of rl bytes its producer wrote from offset rows_base on.
\* A subheader is [sig, length, compression, type, v]: the index its signature
\* maps to ("none" when the table has no such signature), the three pointer
\* fields, and the content its handler reads.

EmptyPage == [type |-> 0, block_count |-> 0, subs |-> <<>>, rows_base |-> 0, rl |-> 1, nrows |-> 0]

\* The buffer a read returned: len bytes, which are page pidx of the file
\* (0: header bytes, no bytes, an incomplete page).
Buf(len, pidx) == [len |-> len, pidx |-> pidx]
NoBuf == Buf(-1, 0)

PageOf(f, cached) == IF cached.pidx > 0 THEN f.pages[cached.pidx] ELSE EmptyPage

\* The offset at which the header of the file stands: that of its magic
\* bytes (0 for a file without them).
HeaderStart(f) == IF f.magic_at = {} THEN 0 ELSE CHOOSE at \in f.magic_at : TRUE

\* The page that occupies the page_length bytes at position pos, 0 if none does.
PageIndexAt(f, pos, page_length) ==
    LET rel == pos - HeaderStart(f) - f.hdr.header_length
    IN  IF page_length > 0 /\ rel >= 0 /\ rel % page_length = 0
           /\ page_length = f.hdr.page_length
           /\ (rel \div page_length) + 1 <= Len(f.pages)
        THEN (rel \div page_length) + 1 ELSE 0

\* ------------------------------------------------------ rows as decoded
\* A decoded row is [via, page, slot, buf, n]: where its bytes came from ("page":
\* row record slot of the page; "sub": the data subheader slot, read in place;
\* "rle": that subheader decompressed into buf; "stray": bytes of the cached
\* page that are no row record; "none": the initial current_row), and its
\* number n of values.
Row(via, page, slot, buf, n) == [via |-> via, page |-> page, slot |-> slot, buf |-> buf, n |-> n]
NoRow == Row("none", 0, 0, <<>>, 0)

\* The row record at byte offset of the cached page.
RowAt(f, cached, offset) ==
    LET pg == PageOf(f, cached)
        rel == offset - pg.rows_base
    IN  IF cached.pidx > 0 /\ rel >= 0 /\ rel % pg.rl = 0 /\ rel \div pg.rl < pg.nrows
        THEN Row("page", cached.pidx, rel \div pg.rl, <<>>, 0)
        ELSE Row("stray", cached.pidx, offset, <<>>, 0)


\* ------------------------------------------- the state a call works on
\* The operators below take and return S = [sas, props, err, reads, decoded,
\* paged]: the SAS7BDAT fields, the SASProperties fields, the error thrown (""
\* while none is), and the reads of the byte source, the rows decoded and the
\* page headers read by the call so far.

\* S as a call finds it.
Entry(instance, props) ==
    [sas |-> instance, props |-> props, err |-> NoErr, reads |-> <<>>, decoded |-> <<>>,
     paged |-> <<>>]

Throw(S, e) == [S EXCEPT !.err = e]
Failed(S) == S.err # NoErr

\* new SASProperties(). name stands for the text fields parse() fills
\* (name, file_type, sas_release, server_type, os_type, os_name).
SASProperties ==
    [u64 |-> FALSE, endianess |-> "null", name |-> "null",
     header_length |-> Null, page_length |-> Null,
     compression |-> "null",
     row_length |-> Null, row_count |-> Null, col_count_p1 |-> Null,
     col_count_p2 |-> Null, mix_page_row_count |-> Null,
     lcs |-> Null, lcp |-> Null, creator |-> "null", creator_proc |-> "null",
     column_count |-> Null]

\* read_file(sas7bdat, 0, length): the bytes file_pos .. file_pos+length-1 that
\* the source holds; file_pos moves past them. [S, n, at].
\* slice(begin, end) counts a negative end from the end of the source.
read_file(S, length) ==
    LET pos == S.sas.file_pos
        end == IF pos + length < 0 THEN Max(0, file.size + pos + length)
               ELSE Min(file.size, pos + length)
        n == Max(0, end - Min(file.size, pos))
    IN  IF ~S.sas.open THEN [S |-> Throw(S, ErrType), n |-> 0, at |-> pos]
        ELSE [S |-> [S EXCEPT !.sas.file_pos = pos + n], n |-> n, at |-> pos]

\* ------------------------------------------------------ subheader handlers

int_length(S) == IF S.props.u64 THEN 8 ELSE 4

\* RowSizeSubheader testing row_length alone before it assigns.
RowSizeSubheaderOneCheck(S, sub) ==
    LET p == S.props
    IN  IF p.row_length # Null THEN Throw(S, ErrRowLength)
        ELSE [S EXCEPT !.props =
                [p EXCEPT !.row_length = Some(sub.v.row_length),
                          !.row_count = Some(sub.v.row_count),
                          !.col_count_p1 = Some(sub.v.col_count_p1),
                          !.col_count_p2 = Some(sub.v.col_count_p2),
                          !.mix_page_row_count = Some(sub.v.mix_page_row_count),
                          !.lcs = Some(sub.v.lcs),
                          !.lcp = Some(sub.v.lcp)]]

RowSizeSubheader(S, sub) ==
    LET p == S.props
    IN  IF p.row_length # Null THEN Throw(S, ErrRowLength)
        ELSE IF p.row_count # Null THEN Throw(S, ErrRowCount)
        ELSE IF p.col_count_p1 # Null THEN Throw(S, ErrColCountP1)
        ELSE IF p.col_count_p2 # Null THEN Throw(S, ErrColCountP2)
        ELSE IF p.mix_page_row_count # Null THEN Throw(S, ErrMixCount)
        ELSE [S EXCEPT !.props =
                [p EXCEPT !.row_length = Some(sub.v.row_length),
                          !.row_count = Some(sub.v.row_count),
                          !.col_count_p1 = Some(sub.v.col_count_p1),
                          !.col_count_p2 = Some(sub.v.col_count_p2),
                          !.mix_page_row_count = Some(sub.v.mix_page_row_count),
                          !.lcs = Some(sub.v.lcs),
                          !.lcp = Some(sub.v.lcp)]]

ColumnSizeSubheader(S, sub) ==
    IF S.props.column_count # Null THEN Throw(S, ErrColumnCount)
    ELSE [S EXCEPT !.props.column_count = Some(sub.v.column_count)]

\* sub.v.literals: the compression literals the text block contains;
\* sub.v.field: the 8-byte text at offset + 16 (+ 20 in the 64-bit layout).
ColumnTextSubheader(S, sub) ==
    LET strings == Append(S.sas.column_names_strings, sub.v)
        S1 == [S EXCEPT !.sas.column_names_strings = strings]
        found == {k \in 1..Len(COMPRESSION_LITERALS) : COMPRESSION_LITERALS[k] \in sub.v.literals}
        first == CHOOSE k \in found : \A m \in found : k <= m
        compression_literal == IF found = {} THEN "null" ELSE COMPRESSION_LITERALS[first]
        S2 == [S1 EXCEPT !.props.compression = compression_literal]
    IN  IF Len(strings) # 1 THEN S1
        ELSE IF sub.v.field = ""
             THEN [S2 EXCEPT !.props.lcs = Some(0), !.props.creator_proc = "creator_proc"]
        ELSE IF sub.v.field = RLE_COMPRESSION
             THEN [S2 EXCEPT !.props.creator_proc = "creator_proc"]
        ELSE IF Num(S2.props.lcs) > 0
             THEN [S2 EXCEPT !.props.lcp = Some(0), !.props.creator = "creator"]
        ELSE S2

\* ColumnNameSubheader assigning the names of its subheader to column_names
\* instead of pushing them.
ColumnNameSubheaderAssign(S, sub) ==
    LET column_name_pointers_count == (sub.length - 2 * int_length(S) - 12) \div 8
        names == [i \in 1..Max(0, column_name_pointers_count) |->
                     IF i <= Len(sub.v.names) THEN sub.v.names[i] ELSE ""]
    IN  IF column_name_pointers_count <= 0 THEN S
        ELSE IF sub.v.idx < 0 \/ sub.v.idx >= Len(S.sas.column_names_strings)
             THEN Throw(S, ErrType)
        ELSE [S EXCEPT !.sas.column_names = names]

\* sub.v.idx: the text block every pointer names; sub.v.names: the names the
\* pointers slice out of it.
ColumnNameSubheader(S, sub) ==
    LET column_name_pointers_count == (sub.length - 2 * int_length(S) - 12) \div 8
        names == [i \in 1..Max(0, column_name_pointers_count) |->
                     IF i <= Len(sub.v.names) THEN sub.v.names[i] ELSE ""]
    IN  IF column_name_pointers_count <= 0 THEN S
        ELSE IF sub.v.idx < 0 \/ sub.v.idx >= Len(S.sas.column_names_strings)
             THEN Throw(S, ErrType)
        ELSE [S EXCEPT !.sas.column_names = S.sas.column_names \o names]

ColumnAttributesSubheader(S, sub) ==
    LET int_len == int_length(S)
        column_attributes_vectors_count == (sub.length - 2 * int_len - 12) \div (int_len + 8)
        n == Max(0, column_attributes_vectors_count)
        At(i) == IF i <= Len(sub.v.attrs) THEN sub.v.attrs[i]
                 ELSE [offset |-> 0, length |-> 0, type |-> 0]
    IN  [S EXCEPT
            !.sas.column_data_offsets = S.sas.column_data_offsets \o [i \in 1..n |-> At(i).offset],
            !.sas.column_data_lengths = S.sas.column_data_lengths \o [i \in 1..n |-> At(i).length],
            !.sas.column_types = S.sas.column_types \o
                [i \in 1..n |-> IF At(i).type = 1 THEN "number" ELSE "string"]]

\* FormatAndLabelSubheader naming every column after the first name.
FormatAndLabelSubheaderFirstName(S, sub) ==
    LET current_column_number == Len(S.sas.columns)
        k == current_column_number + 1
        column ==
            [col_id |-> current_column_number,
             name |-> IF 1 <= Len(S.sas.column_names) THEN S.sas.column_names[1] ELSE UNDEFINED,
             format |-> sub.v.format,
             type |-> IF k <= Len(S.sas.column_types) THEN S.sas.column_types[k] ELSE UNDEFINED,
             length |-> IF k <= Len(S.sas.column_data_lengths)
                        THEN Some(S.sas.column_data_lengths[k]) ELSE Null]
    IN  IF Len(S.sas.column_names_strings) = 0 THEN Throw(S, ErrType)
        ELSE [S EXCEPT !.sas.columns = Append(S.sas.columns, column)]

\* new Column(col_id, name, label, format, type, length); a list read past
\* its end gives undefined (Null for the length).
FormatAndLabelSubheader(S, sub) ==
    LET current_column_number == Len(S.sas.columns)
        k == current_column_number + 1
        column ==
            [col_id |-> current_column_number,
             name |-> IF k <= Len(S.sas.column_names) THEN S.sas.column_names[k] ELSE UNDEFINED,
             format |-> sub.v.format,
             type |-> IF k <= Len(S.sas.column_types) THEN S.sas.column_types[k] ELSE UNDEFINED,
             length |-> IF k <= Len(S.sas.column_data_lengths)
                        THEN Some(S.sas.column_data_lengths[k]) ELSE Null]
    IN  IF Len(S.sas.column_names_strings) = 0 THEN Throw(S, ErrType)
        ELSE [S EXCEPT !.sas.columns = Append(S.sas.columns, column)]

\* SUBHEADER_INDEX_TO_CLASS[index], applied.
ProcessSubheader(S, index, sub) ==
    CASE index = "row_size" -> RowSizeSubheader(S, sub)
      [] index = "column_size" -> ColumnSizeSubheader(S, sub)
      [] index = "column_text" -> ColumnTextSubheader(S, sub)
      [] index = "column_name" -> ColumnNameSubheader(S, sub)
      [] index = "column_attributes" -> ColumnAttributesSubheader(S, sub)
      [] index = "format_and_label" -> FormatAndLabelSubheader(S, sub)
      [] OTHER -> S


\* ------------------------------------------------------------ row decoder

\* The loop over the columns of _process_byte_array_with_data, from column i
\* (0-based) on: the number of row_elements pushed, or the TypeError of
\* this.columns[i].type when the column was never constructed.
\* RowElements going on past a column of length 0.
RECURSIVE RowElementsNoBreak(_, _)
RowElementsNoBreak(S, i) ==
    IF i >= Num(S.props.column_count) THEN [err |-> NoErr, n |-> i]
    ELSE IF i >= Len(S.sas.columns) THEN [err |-> ErrType, n |-> i]
    ELSE RowElementsNoBreak(S, i + 1)

RECURSIVE RowElements(_, _)
RowElements(S, i) ==
    IF i >= Num(S.props.column_count) THEN [err |-> NoErr, n |-> i]
    ELSE IF i < Len(S.sas.column_data_lengths) /\ S.sas.column_data_lengths[i + 1] = 0
         THEN [err |-> NoErr, n |-> i]
    ELSE IF i >= Len(S.sas.columns) THEN [err |-> ErrType, n |-> i]
    ELSE RowElements(S, i + 1)

\* new Decompressor(this).decompress_row(offset, length, row_length, cached_page)
\* for DECOMPRESSORS[compression]: the RDCDecompressor constructor throws.
Decompress(compression, bytes, length, row_length) ==
    IF compression = RLE_COMPRESSION THEN decompress_row(0, length, row_length, bytes)
    ELSE RleErr(ErrNotImplemented)

\* _process_byte_array_with_data(offset, length): [err, row]. in_sub tells
\* that offset is a data subheader's (then its index in the pointer array
\* stands for it, and the subheader's bytes for the page from there on).
process_byte_array_with_data(S, in_sub, offset, length) ==
    LET cached == S.sas.cached_page
        pg == PageOf(file, cached)
        bytes == IF in_sub /\ offset < Len(pg.subs) THEN pg.subs[offset + 1].v.bytes ELSE <<>>
        compressed == S.props.compression # "null" /\ length < Num(S.props.row_length)
        source(d) ==
            IF compressed THEN Row("rle", cached.pidx, offset, d.buf, 0)
            ELSE IF in_sub THEN Row("sub", cached.pidx, offset, <<>>, 0)
            ELSE RowAt(file, cached, offset)
        Sliced(d, e) ==
            IF compressed /\ d.err # NoErr THEN [err |-> d.err, row |-> NoRow]
            ELSE IF e.err # NoErr THEN [err |-> e.err, row |-> NoRow]
            ELSE [err |-> NoErr, row |-> [source(d) EXCEPT !.n = e.n]]
    IN  Sliced(Decompress(S.props.compression, bytes, length, Num(S.props.row_length)),
               RowElements(S, 0))

\* A row decoded by the call, noted in decoded: the row, the type, the
\* block_count and the index of the page being read, the on-page index the
\* row was decoded at, and the column_count and column_data_lengths it was
\* decoded with.
Decoded(S, row, index) ==
    [row |-> row, type |-> Num(S.sas.current_page_type),
     block_count |-> Num(S.sas.current_page_block_count),
     pidx |-> S.sas.cached_page.pidx, index |-> index,
     column_count |-> Num(S.props.column_count),
     lengths |-> S.sas.column_data_lengths]

\* DataSubheader.process_subheader(offset, length); readline has moved
\* current_row_on_page_index past the pointer already.
DataSubheader(S, pointer) ==
    LET Store(r) ==
            IF r.err # NoErr THEN Throw(S, r.err)
            ELSE [S EXCEPT !.sas.current_row = r.row,
                           !.decoded = Append(@, Decoded(S, r.row,
                                                         S.sas.current_row_on_page_index - 1))]
    IN  Store(process_byte_array_with_data(S, TRUE, pointer.offset, pointer.length))

\* --------------------------------------------------------- page metadata

PAGE_BIT_OFFSET(S) == IF S.props.u64 THEN PAGE_BIT_OFFSET_X64 ELSE PAGE_BIT_OFFSET_X86
SUBHEADER_POINTER_LENGTH(S) ==
    IF S.props.u64 THEN SUBHEADER_POINTER_LENGTH_X64 ELSE SUBHEADER_POINTER_LENGTH_X86

read_page_header(S) ==
    LET pg == PageOf(file, S.sas.cached_page)
    IN  [S EXCEPT !.sas.current_page_type = Some(pg.type),
                  !.sas.current_page_block_count = Some(pg.block_count),
                  !.sas.current_page_subheaders_count = Some(Len(pg.subs))]

\* new SubheaderPointer(offset, length, compression, type) for pointer i.
process_subheader_pointers(S, i) ==
    LET sub == PageOf(file, S.sas.cached_page).subs[i + 1]
    IN  [offset |-> i, length |-> sub.length, compression |-> sub.compression,
         type |-> sub.type]

\* get_subheader_class taking the pointer's compression 4 alone for a
\* compressed row.
get_subheader_class_id_only(S, signature, compression, type) ==
    LET index == IF signature \in SUBHEADER_INDEXES THEN signature ELSE UNDEFINED
    IN  IF S.props.compression # "null" /\ index = UNDEFINED
           /\ compression = COMPRESSED_SUBHEADER_ID
           /\ type = COMPRESSED_SUBHEADER_TYPE
        THEN DATA_SUBHEADER_INDEX ELSE index

get_subheader_class(S, signature, compression, type) ==
    LET index == IF signature \in SUBHEADER_INDEXES THEN signature ELSE UNDEFINED
    IN  IF S.props.compression # "null" /\ index = UNDEFINED
           /\ (compression = COMPRESSED_SUBHEADER_ID \/ compression = 0)
           /\ type = COMPRESSED_SUBHEADER_TYPE
        THEN DATA_SUBHEADER_INDEX ELSE index

\* The loop of process_page_metadata, from pointer i on.
RECURSIVE ProcessPointers(_, _)
ProcessPointers(S, i) ==
    IF Failed(S) \/ i >= Num(S.sas.current_page_subheaders_count) THEN S
    ELSE LET pointer == process_subheader_pointers(S, i)
             sub == PageOf(file, S.sas.cached_page).subs[i + 1]
             subheader_index ==
                 get_subheader_class(S, sub.sig, pointer.compression, pointer.type)
         IN  IF pointer.length = 0 THEN ProcessPointers(S, i + 1)
             ELSE IF pointer.compression = TRUNCATED_SUBHEADER_ID THEN ProcessPointers(S, i + 1)
             ELSE IF subheader_index = UNDEFINED THEN ProcessPointers(S, i + 1)
             ELSE IF subheader_index # DATA_SUBHEADER_INDEX
                  THEN ProcessPointers(ProcessSubheader(S, subheader_index, sub), i + 1)
             ELSE ProcessPointers(
                      [S EXCEPT !.sas.current_page_data_subheader_pointers = Append(@, pointer)],
                      i + 1)

\* The page whose header was just read, noted in paged: by "walk"
\* (process_page_meta) or by "next" (_read_next_page).
Paged(S, by) ==
    [S EXCEPT !.paged = Append(@, [pidx |-> S.sas.cached_page.pidx,
                                   type |-> Num(S.sas.current_page_type),
                                   by |-> by, processed |-> FALSE])]

\* The subheader-pointer array of the page just noted is processed.
process_page_metadata(S) ==
    ProcessPointers([S EXCEPT !.paged[Len(S.paged)].processed = TRUE], 0)

\* process_page_meta processing META pages alone.
process_page_meta_only_meta(S) ==
    LET Done(S2) ==
            [S |-> S2,
             done |-> Num(S2.sas.current_page_type) \in PAGE_MIX_DATA_TYPE
                      \/ Len(S2.sas.current_page_data_subheader_pointers) > 0]
        Processed(S1) ==
            Done(IF S1.sas.current_page_type = Some(PAGE_META_TYPE)
                 THEN process_page_metadata(S1) ELSE S1)
    IN  Processed(Paged(read_page_header(S), "walk"))

\* [S, done]
process_page_meta(S) ==
    LET Done(S2) ==
            [S |-> S2,
             done |-> Num(S2.sas.current_page_type) \in PAGE_MIX_DATA_TYPE
                      \/ Len(S2.sas.current_page_data_subheader_pointers) > 0]
        Processed(S1) ==
            Done(IF Num(S1.sas.current_page_type) \in PAGE_META_MIX_AMD
                 THEN process_page_metadata(S1) ELSE S1)
    IN  Processed(Paged(read_page_header(S), "walk"))

\* A read of page_length bytes into cached_page, noted in reads.
ReadPage(S) ==
    LET page_length == Num(S.props.page_length)
        cached(r) ==
            Buf(r.n, IF r.n = page_length THEN PageIndexAt(file, r.at, page_length) ELSE 0)
        Read(r) ==
            IF Failed(r.S) THEN [S |-> r.S, n |-> 0]
            ELSE [S |-> [r.S EXCEPT !.sas.cached_page = cached(r),
                                    !.reads = Append(@, [n |-> r.n, pidx |-> cached(r).pidx,
                                                         page |-> TRUE])],
                  n |-> r.n]
    IN  Read(read_file(S, page_length))

RECURSIVE parse_metadata(_)
parse_metadata(S) ==
    LET Walk(m) == IF Failed(m.S) \/ m.done THEN m.S ELSE parse_metadata(m.S)
        Read(r) ==
            IF Failed(r.S) THEN r.S
            ELSE IF r.n <= 0 THEN r.S
            ELSE IF r.n # Num(S.props.page_length) THEN Throw(r.S, ErrMetaPage)
            ELSE Walk(process_page_meta(r.S))
    IN  Read(ReadPage(S))

ReadTypes == PAGE_MIX_TYPE \cup {PAGE_META_TYPE, PAGE_DATA_TYPE}

\* _read_next_page skipping META pages as well.
RECURSIVE read_next_page_skip_meta(_)
read_next_page_skip_meta(S) ==
    LET Processed(S2) ==
            IF Failed(S2) THEN S2
            ELSE IF Num(S2.sas.current_page_type) \notin PAGE_MIX_DATA_TYPE
                 THEN read_next_page_skip_meta(S2)
            ELSE S2
        Header(S1) ==
            Processed(IF S1.sas.current_page_type = Some(PAGE_META_TYPE)
                      THEN process_page_metadata(S1) ELSE S1)
        Read(r) ==
            IF Failed(r.S) THEN r.S
            ELSE IF r.n <= 0 THEN r.S
            ELSE IF r.n # Num(S.props.page_length) THEN Throw(r.S, ErrPage)
            ELSE Header(Paged(read_page_header(r.S), "next"))
    IN  Read(ReadPage([S EXCEPT !.sas.current_page_data_subheader_pointers = <<>>]))

\* _read_next_page without the recursive call: a page of any type is kept.
read_next_page_once(S) ==
    LET Header(S1) ==
            IF S1.sas.current_page_type = Some(PAGE_META_TYPE)
            THEN process_page_metadata(S1) ELSE S1
        Read(r) ==
            IF Failed(r.S) THEN r.S
            ELSE IF r.n <= 0 THEN r.S
            ELSE IF r.n # Num(S.props.page_length) THEN Throw(r.S, ErrPage)
            ELSE Header(Paged(read_page_header(r.S), "next"))
    IN  Read(ReadPage([S EXCEPT !.sas.current_page_data_subheader_pointers = <<>>]))

RECURSIVE read_next_page(_)
read_next_page(S) ==
    LET Processed(S2) ==
            IF Failed(S2) THEN S2
            ELSE IF Num(S2.sas.current_page_type) \notin ReadTypes THEN read_next_page(S2)
            ELSE S2
        Header(S1) ==
            Processed(IF S1.sas.current_page_type = Some(PAGE_META_TYPE)
                      THEN process_page_metadata(S1) ELSE S1)
        Read(r) ==
            IF Failed(r.S) THEN r.S
            ELSE IF r.n <= 0 THEN r.S
            ELSE IF r.n # Num(S.props.page_length) THEN Throw(r.S, ErrPage)
            ELSE Header(Paged(read_page_header(r.S), "next"))
    IN  Read(ReadPage([S EXCEPT !.sas.current_page_data_subheader_pointers = <<>>]))


\* ----------------------------------------------------------- header parser

check_magic_number(at) == at \in file.magic_at

\* parse checking the magic number before the length of what it read.
parse_magic_first(S) ==
    LET h == file.hdr
        S1(r) == [r.S EXCEPT !.sas.cached_page = Buf(r.n, 0),
                             !.reads = Append(@, [n |-> r.n, pidx |-> 0, page |-> FALSE])]
        S2(r) == [S1(r) EXCEPT !.props.u64 = h.u64,
                               !.props.endianess = h.endian,
                               !.sas.endianess = h.endian]
        S3(r) == [S2(r) EXCEPT !.props.name = "name",
                               !.props.header_length = Some(h.header_length)]
        S4(n, r2) == [r2.S EXCEPT !.sas.cached_page = Buf(n + r2.n, 0),
                                  !.reads = Append(@, [n |-> r2.n, pidx |-> 0, page |-> FALSE])]
        Rest(n, r2) ==
            IF n + r2.n # h.header_length THEN Throw(S4(n, r2), ErrHeaderShort)
            ELSE [S4(n, r2) EXCEPT !.props.page_length = Some(h.page_length),
                                   !.sas.u64 = h.u64]
        Start(r) ==
            IF Failed(r.S) THEN r.S
            ELSE IF ~check_magic_number(r.at) THEN Throw(S1(r), ErrMagic)
            ELSE IF r.n < HEADER_SIZE THEN Throw(S1(r), ErrHeaderShort)
            ELSE IF h.endian = "big" THEN Throw(S2(r), ErrBigEndian)
            ELSE Rest(r.n, read_file(S3(r), h.header_length - HEADER_SIZE))
    IN  Start(read_file(S, HEADER_SIZE))

\* SASHeader.parse(): the 288 bytes at file_pos, then the rest of the header.
parse(S) ==
    LET h == file.hdr
        S1(r) == [r.S EXCEPT !.sas.cached_page = Buf(r.n, 0),
                             !.reads = Append(@, [n |-> r.n, pidx |-> 0, page |-> FALSE])]
        S2(r) == [S1(r) EXCEPT !.props.u64 = h.u64,
                               !.props.endianess = h.endian,
                               !.sas.endianess = h.endian]
        \* _read_val('s', ...) of the dataset name: struct_unpack throws on '>'
        S3(r) == [S2(r) EXCEPT !.props.name = "name",
                               !.props.header_length = Some(h.header_length)]
        S4(n, r2) == [r2.S EXCEPT !.sas.cached_page = Buf(n + r2.n, 0),
                                  !.reads = Append(@, [n |-> r2.n, pidx |-> 0, page |-> FALSE])]
        Rest(n, r2) ==
            IF n + r2.n # h.header_length THEN Throw(S4(n, r2), ErrHeaderShort)
            ELSE [S4(n, r2) EXCEPT !.props.page_length = Some(h.page_length),
                                   !.sas.u64 = h.u64]
        Start(r) ==
            IF Failed(r.S) THEN r.S
            ELSE IF r.n < HEADER_SIZE THEN Throw(S1(r), ErrHeaderShort)
            ELSE IF ~check_magic_number(r.at) THEN Throw(S1(r), ErrMagic)
            ELSE IF h.endian = "big" THEN Throw(S2(r), ErrBigEndian)
            ELSE Rest(r.n, read_file(S3(r), h.header_length - HEADER_SIZE))
    IN  Start(read_file(S, HEADER_SIZE))

\* SAS7BDAT.parse_header(): a new SASHeader (with new SASProperties) each time.
parse_header(S) ==
    LET Parsed(S2) == IF Failed(S2) THEN S2 ELSE parse_metadata(S2)
    IN  IF ~S.sas.open THEN Throw(S, "open_file not implemented")
        ELSE Parsed(parse([S EXCEPT !.props = SASProperties, !.sas.header = TRUE]))

\* ------------------------------------------------------------- row stream

\* What a readline call gives its caller.
Ret(kind, row, names) == [kind |-> kind, row |-> row, names |-> names]
Out(S, ret) == [S |-> S, ret |-> ret]
Thrown(S) == Out(S, Ret("error", NoRow, <<>>))

\* The three page branches of readline, after current_row_in_file_index += 1.
ReadMetaRow(S) ==
    LET idx == S.sas.current_row_on_page_index
        ptrs == S.sas.current_page_data_subheader_pointers
        NewPage(S2) == IF Failed(S2) THEN S2 ELSE [S2 EXCEPT !.sas.current_row_on_page_index = 0]
        Processed(S1) ==
            IF Failed(S1) THEN S1
            ELSE IF idx + 1 = Len(ptrs) THEN NewPage(read_next_page(S1))
            ELSE S1
    IN  IF idx < Len(ptrs) /\ idx >= 0
        THEN Processed(DataSubheader([S EXCEPT !.sas.current_row_on_page_index = idx + 1],
                                     ptrs[idx + 1]))
        ELSE NewPage(read_next_page(S))

\* MixAlignCorrection as the distance to the next multiple of 8, without the
\* closing "% 8".
MixAlignCorrectionUp(S) ==
    IF S.sas.align_correction
    THEN 8 - ((PAGE_BIT_OFFSET(S) + SUBHEADER_POINTERS_OFFSET
               + Num(S.sas.current_page_subheaders_count) * SUBHEADER_POINTER_LENGTH(S)) % 8)
    ELSE 0

\* MixAlignCorrection with the pointer length of the 32-bit layout whatever
\* the layout is.
MixAlignCorrectionX86(S) ==
    IF S.sas.align_correction
    THEN (PAGE_BIT_OFFSET(S) + SUBHEADER_POINTERS_OFFSET
          + Num(S.sas.current_page_subheaders_count) * SUBHEADER_POINTER_LENGTH_X86) % 8
    ELSE 0

MixAlignCorrection(S) ==
    IF S.sas.align_correction
    THEN (PAGE_BIT_OFFSET(S) + SUBHEADER_POINTERS_OFFSET
          + Num(S.sas.current_page_subheaders_count) * SUBHEADER_POINTER_LENGTH(S)) % 8
    ELSE 0

\* The rows of a page end after limit rows.
ReadPageRow(S, offset, limit) ==
    LET NewPage(S2) == IF Failed(S2) THEN S2 ELSE [S2 EXCEPT !.sas.current_row_on_page_index = 0]
        Stored(S1) ==
            IF S1.sas.current_row_on_page_index = limit THEN NewPage(read_next_page(S1))
            ELSE S1
        Sliced(r) ==
            IF r.err # NoErr THEN Throw(S, r.err)
            ELSE Stored([S EXCEPT !.sas.current_row = r.row,
                                  !.sas.current_row_on_page_index = @ + 1,
                                  !.decoded = Append(@, Decoded(S, r.row,
                                                  S.sas.current_row_on_page_index))])
    IN  Sliced(process_byte_array_with_data(S, FALSE, offset, Num(S.props.row_length)))

\* The offset of the row to decode on a MIX page.
MixRowOffset(S) ==
    PAGE_BIT_OFFSET(S) + SUBHEADER_POINTERS_OFFSET + MixAlignCorrection(S)
    + Num(S.sas.current_page_subheaders_count) * SUBHEADER_POINTER_LENGTH(S)
    + S.sas.current_row_on_page_index * Num(S.props.row_length)

ReadMixRow(S) ==
    ReadPageRow(S, MixRowOffset(S),
        Min(Num(S.props.row_count), Num(S.props.mix_page_row_count)))

ReadDataRow(S) ==
    ReadPageRow(S,
        PAGE_BIT_OFFSET(S) + SUBHEADER_POINTERS_OFFSET
        + S.sas.current_row_on_page_index * Num(S.props.row_length),
        Num(S.sas.current_page_block_count))

\* this.columns.map(x => decode(x.name, this.encoding)), kept from the first
\* call on; decode(undefined) throws.
DecodeNames(S) ==
    IF S.sas.column_names_strings_decoded # Null THEN S
    ELSE IF \E k \in 1..Len(S.sas.columns) : S.sas.columns[k].name = UNDEFINED
         THEN Throw(S, ErrType)
    ELSE [S EXCEPT !.sas.column_names_strings_decoded =
             Some([k \in 1..Len(S.sas.columns) |-> S.sas.columns[k].name])]

\* NextRow with the row bound tested by <= instead of <.
NextRowInclusive(S) ==
    LET t == S.sas.current_page_type
        Return(S2) ==
            IF Failed(S2) THEN Thrown(S2) ELSE Out(S2, Ret("row", S2.sas.current_row, <<>>))
        Branch(S1) ==
            IF t = Some(PAGE_META_TYPE) THEN ReadMetaRow(S1)
            ELSE IF t # Null /\ t[1] \in PAGE_MIX_TYPE THEN ReadMixRow(S1)
            ELSE IF t = Some(PAGE_DATA_TYPE) THEN ReadDataRow(S1)
            ELSE Throw(S1, ErrPageType)
    IN  IF S.sas.current_row_in_file_index <= Num(S.props.row_count)
        THEN Return(Branch([S EXCEPT !.sas.current_row_in_file_index = @ + 1]))
        ELSE Out([S EXCEPT !.sas.open = FALSE], Ret("null", NoRow, <<>>))

\* NextRow without the close_file call of its last branch.
NextRowKeepOpen(S) ==
    LET t == S.sas.current_page_type
        Return(S2) ==
            IF Failed(S2) THEN Thrown(S2) ELSE Out(S2, Ret("row", S2.sas.current_row, <<>>))
        Branch(S1) ==
            IF t = Some(PAGE_META_TYPE) THEN ReadMetaRow(S1)
            ELSE IF t # Null /\ t[1] \in PAGE_MIX_TYPE THEN ReadMixRow(S1)
            ELSE IF t = Some(PAGE_DATA_TYPE) THEN ReadDataRow(S1)
            ELSE Throw(S1, ErrPageType)
    IN  IF S.sas.current_row_in_file_index < Num(S.props.row_count)
        THEN Return(Branch([S EXCEPT !.sas.current_row_in_file_index = @ + 1]))
        ELSE Out(S, Ret("null", NoRow, <<>>))

\* NextRow counting the call that finds no row left.
NextRowCounting(S) ==
    LET t == S.sas.current_page_type
        Return(S2) ==
            IF Failed(S2) THEN Thrown(S2) ELSE Out(S2, Ret("row", S2.sas.current_row, <<>>))
        Branch(S1) ==
            IF t = Some(PAGE_META_TYPE) THEN ReadMetaRow(S1)
            ELSE IF t # Null /\ t[1] \in PAGE_MIX_TYPE THEN ReadMixRow(S1)
            ELSE IF t = Some(PAGE_DATA_TYPE) THEN ReadDataRow(S1)
            ELSE Throw(S1, ErrPageType)
    IN  IF S.sas.current_row_in_file_index < Num(S.props.row_count)
        THEN Return(Branch([S EXCEPT !.sas.current_row_in_file_index = @ + 1]))
        ELSE Out([S EXCEPT !.sas.open = FALSE, !.sas.current_row_in_file_index = @ + 1],
                 Ret("null", NoRow, <<>>))

\* The body of readline once the header is parsed.
NextRow(S) ==
    LET t == S.sas.current_page_type
        Return(S2) ==
            IF Failed(S2) THEN Thrown(S2) ELSE Out(S2, Ret("row", S2.sas.current_row, <<>>))
        Branch(S1) ==
            IF t = Some(PAGE_META_TYPE) THEN ReadMetaRow(S1)
            ELSE IF t # Null /\ t[1] \in PAGE_MIX_TYPE THEN ReadMixRow(S1)
            ELSE IF t = Some(PAGE_DATA_TYPE) THEN ReadDataRow(S1)
            ELSE Throw(S1, ErrPageType)
    IN  IF S.sas.current_row_in_file_index < Num(S.props.row_count)
        THEN Return(Branch([S EXCEPT !.sas.current_row_in_file_index = @ + 1]))
        ELSE Out([S EXCEPT !.sas.open = FALSE], Ret("null", NoRow, <<>>))

\* readline sending the header row whatever row_format is.
readlineAnyFormat(S) ==
    LET Rows(S2) ==
            IF Failed(S2) THEN Thrown(S2)
            ELSE IF ~S2.sas.skip_header /\ ~S2.sas.sent_header
                 THEN Out([S2 EXCEPT !.sas.sent_header = TRUE],
                          Ret("header", NoRow, S2.sas.column_names_strings_decoded[1]))
            ELSE IF S2.sas.cached_page = NoBuf THEN Thrown(Throw(S2, "seek not implemented"))
            ELSE NextRow(S2)
        Names(S1) == IF Failed(S1) THEN Thrown(S1) ELSE Rows(DecodeNames(S1))
        Header(P) == IF Failed(P) THEN P ELSE [P EXCEPT !.sas.parsed_header = TRUE]
    IN  Names(IF S.sas.parsed_header THEN S ELSE Header(parse_header(S)))

readline(S) ==
    LET Rows(S2) ==
            IF Failed(S2) THEN Thrown(S2)
            ELSE IF ~S2.sas.skip_header /\ ~S2.sas.sent_header /\ S2.sas.row_format = "array"
                 THEN Out([S2 EXCEPT !.sas.sent_header = TRUE],
                          Ret("header", NoRow, S2.sas.column_names_strings_decoded[1]))
            ELSE IF S2.sas.cached_page = NoBuf THEN Thrown(Throw(S2, "seek not implemented"))
            ELSE NextRow(S2)
        Names(S1) == IF Failed(S1) THEN Thrown(S1) ELSE Rows(DecodeNames(S1))
        Header(P) == IF Failed(P) THEN P ELSE [P EXCEPT !.sas.parsed_header = TRUE]
    IN  Names(IF S.sas.parsed_header THEN S ELSE Header(parse_header(S)))


\* ------------------------------------------------------------ the files
\* Bounds of the files read: the pages after the first, and the row_count a
\* RowSize subheader declares.
MaxRest == 2
MaxRows == 3

Sub(sig, length, compression, type, v) ==
    [sig |-> sig, length |-> length, compression |-> compression, type |-> type, v |-> v]

\* The schema subheaders of a 32-bit file of two columns, a (number, 3 bytes)
\* and b (string, 2 bytes), in rows of 5 bytes, that declares rc rows, the
\* compression literal comp and cc columns.
RowSizeSub(rc) ==
    Sub("row_size", 480, 0, 0,
        [row_length |-> 5, row_count |-> rc, col_count_p1 |-> 2, col_count_p2 |-> 0,
         mix_page_row_count |-> 2, lcs |-> 0, lcp |-> 8])
ColumnSizeSub(cc) == Sub("column_size", 12, 0, 0, [column_count |-> cc])
ColumnTextSub(comp) ==
    Sub("column_text", 60, 0, 0,
        [literals |-> IF comp = "null" THEN {} ELSE {comp},
         field |-> IF comp = "null" THEN "" ELSE comp])
ColumnNameSub(names) ==
    Sub("column_name", 2 * 4 + 12 + 8 * Len(names), 0, 0, [idx |-> 0, names |-> names])
ColumnAttributesSub ==
    Sub("column_attributes", 2 * 4 + 12 + (4 + 8) * 2, 0, 0,
        [attrs |-> <<[offset |-> 0, length |-> 3, type |-> 1],
                     [offset |-> 3, length |-> 2, type |-> 2]>>])
FormatAndLabelSub(format) == Sub("format_and_label", 52, 0, 0, [format |-> format])

SchemaSubs(rc, comp, cc) ==
    <<RowSizeSub(rc), ColumnSizeSub(cc), ColumnTextSub(comp), ColumnNameSub(<<"a", "b">>),
      ColumnAttributesSub, FormatAndLabelSub(""), FormatAndLabelSub("")>>

\* Subheaders with a signature the table does not hold: compressed rows
\* (bytes: the page from the subheader's offset on, length: the pointer's).
DataSub(bytes, length, compression, type) ==
    Sub("none", length, compression, type, [bytes |-> bytes])
RleRow == DataSub(<<192, 65, 224>>, 3, 4, 1)      \* C0 'A' E0: AAA and two spaces
RleCut == DataSub(<<194, 65>>, 1, 4, 1)           \* C2, the stream ends before its operand
RleBad == DataSub(<<224>>, 1, 4, 1)               \* E0: two spaces, three bytes short
RawRow == DataSub(<<1, 2, 3, 4, 5>>, 5, 0, 1)     \* a row stored as it is
Unused == DataSub(<<>>, 0, 4, 1)                  \* an empty slot
Truncated == DataSub(<<192, 65, 224>>, 3, 1, 1)   \* compression 1: to ignore
Unknown == DataSub(<<192, 65, 224>>, 3, 4, 0)     \* type 0: no data subheader

Page(type, block_count, subs, rows_base, nrows) ==
    [type |-> type, block_count |-> block_count, subs |-> subs,
     rows_base |-> rows_base, rl |-> 5, nrows |-> nrows]

\* Where the rows of a 32-bit MIX page with n subheaders start: its producer
\* pads the pointer array to a multiple of 8.
MixBase(n) ==
    LET end == PAGE_BIT_OFFSET_X86 + SUBHEADER_POINTERS_OFFSET + n * SUBHEADER_POINTER_LENGTH_X86
    IN  end + (end % 8)
DataBase == PAGE_BIT_OFFSET_X86 + SUBHEADER_POINTERS_OFFSET

\* <<rc, comp, cc>>: what the schema of a file declares.
Schemas ==
    {<<rc, "null", 2>> : rc \in -1..MaxRows}
    \cup {<<rc, RLE_COMPRESSION, 2>> : rc \in {2, MaxRows}}
    \cup {<<1, RDC_COMPRESSION, 2>>, <<2, "null", 1>>, <<1, "null", 3>>}

\* A first page whose first FormatAndLabel subheader precedes the ColumnName
\* subheader: column 0 is constructed without a name.
Misordered ==
    Page(PAGE_META_TYPE, 0,
         <<RowSizeSub(1), ColumnSizeSub(2), ColumnTextSub("null"), ColumnAttributesSub,
           FormatAndLabelSub(""), ColumnNameSub(<<"a", "b">>), FormatAndLabelSub("")>>, 0, 0)

FirstPages ==
    {Page(PAGE_META_TYPE, 0, SchemaSubs(c[1], c[2], c[3]), 0, 0) : c \in Schemas}
    \cup {Misordered}
    \cup {Page(PAGE_META_TYPE, 0, SchemaSubs(c[1], c[2], c[3]) \o <<RleRow>>, 0, 0) :
            c \in {d \in Schemas : d[2] # "null"}}
    \cup {Page(512, 2, SchemaSubs(c[1], c[2], c[3]), MixBase(7), 2) :
            c \in {d \in Schemas : d[2] = "null" /\ d[1] = MaxRows /\ d[3] = 2}}
    \cup {Page(640, 2, SchemaSubs(MaxRows, "null", 2) \o <<Unused>>, MixBase(8), 2)}

RestPages ==
    {Page(PAGE_DATA_TYPE, 2, <<>>, DataBase, 2),
     Page(PAGE_DATA_TYPE, 0, <<>>, DataBase, 0),
     Page(PAGE_META_TYPE, 0, <<RleRow, Unused, RleCut>>, 0, 0),
     Page(PAGE_META_TYPE, 0, <<Truncated, RleBad, Unknown, RawRow>>, 0, 0),
     Page(PAGE_META_TYPE, 0, <<>>, 0, 0),
     Page(PAGE_META_TYPE, 0, <<ColumnNameSub(<<"c">>), ColumnTextSub("null"),
                               FormatAndLabelSub("DATE"), RleRow>>, 0, 0),
     Page(PAGE_META_TYPE, 0, <<RowSizeSub(1)>>, 0, 0),
     Page(PAGE_META_TYPE, 0, <<RleRow, ColumnSizeSub(2)>>, 0, 0),
     Page(PAGE_AMD_TYPE, 0, <<RleRow>>, 0, 0)}

RECURSIVE SeqsUpTo(_, _)
SeqsUpTo(S, n) ==
    IF n = 0 THEN {<<>>}
    ELSE LET shorter == SeqsUpTo(S, n - 1)
         IN  shorter \cup {Append(q, x) : q \in {r \in shorter : Len(r) = n - 1}, x \in S}

\* align1: the shift of the header fields after the dataset name, 4 when
\* byte 35 is '3'.
Hdr(u64, endian) ==
    [u64 |-> u64, endian |-> endian, align1 |-> 0, header_length |-> 1024,
     page_length |-> 4096]

File(size, magic_at, hdr, pages) ==
    [size |-> size, magic_at |-> magic_at, hdr |-> hdr, pages |-> pages]

\* Well-formed headers followed by up to MaxRest + 1 pages, the last of which
\* may be cut short (its first 100 bytes only).
WholePages(n) ==
    {<<f>> \o r : f \in FirstPages, r \in SeqsUpTo(RestPages, n)} \cup SeqsUpTo(RestPages, 1)
PagedFiles ==
    {File(1024 + 4096 * Len(pages), {0}, Hdr(FALSE, "little"), pages) :
        pages \in WholePages(MaxRest)}
    \cup {File(1024 + 4096 * Len(pages) + 100, {0}, Hdr(FALSE, "little"), pages) :
        pages \in WholePages(MaxRest - 1)}

\* Sources too short for a header, with a wrong magic number, big-endian, or
\* shorter than the header_length they declare.
BrokenFiles ==
    {File(size, m, Hdr(FALSE, "little"), <<>>) : size \in {0, 100, 287}, m \in {{}, {0}}}
    \cup {File(size, {}, Hdr(FALSE, "little"), <<>>) : size \in {288, 500, 1024}}
    \cup {File(1024 + 4096, {0}, Hdr(FALSE, "big"), <<f>>) :
             f \in {Page(PAGE_META_TYPE, 0, SchemaSubs(1, "null", 2), 0, 0)}}
    \cup {File(size, {0}, Hdr(FALSE, "little"), <<>>) : size \in {288, 1000}}

\* Pages of the types that carry neither metadata nor rows (METC, COMP and a
\* type that is none of the known ones), and a MIX page that is not the first
\* page of its file.
OtherPages ==
    {Page(t, 0, <<RleRow>>, 0, 0) : t \in {PAGE_METC_TYPE, PAGE_COMP_TYPE, 7}}
    \cup {Page(512, 2, <<Unused>>, MixBase(1), 2)}

\* Such a page after a first page with or without rows, alone or followed by
\* a DATA page.
SkipFiles ==
    {File(1024 + 4096 * Len(pages), {0}, Hdr(FALSE, "little"), pages) :
        pages \in {<<f, p>> \o d :
                     f \in {Page(512, 2, SchemaSubs(MaxRows, "null", 2), MixBase(7), 2),
                            Page(PAGE_META_TYPE, 0, SchemaSubs(MaxRows, "null", 2), 0, 0)},
                     p \in OtherPages,
                     d \in {<<>>, <<Page(PAGE_DATA_TYPE, 2, <<>>, DataBase, 2)>>}}}

\* Files of one MIX page whose two columns are declared with the lengths
\* l[1] and l[2], 0 among them.
ZeroLengthFiles ==
    {File(1024 + 4096, {0}, Hdr(FALSE, "little"),
          <<Page(512, 2,
                 <<RowSizeSub(MaxRows), ColumnSizeSub(2), ColumnTextSub("null"),
                   ColumnNameSub(<<"a", "b">>),
                   Sub("column_attributes", 2 * 4 + 12 + (4 + 8) * 2, 0, 0,
                       [attrs |-> <<[offset |-> 0, length |-> l[1], type |-> 1],
                                    [offset |-> 3, length |-> l[2], type |-> 2]>>]),
                   FormatAndLabelSub(""), FormatAndLabelSub("")>>,
                 MixBase(7), 2)>>) :
        l \in {<<3, 0>>, <<0, 2>>, <<0, 0>>}}

\* A well-formed file of one MIX page of rows written after junk bytes that
\* fill one or two reads of 288 bytes.
ShiftedFiles ==
    {File(at + 1024 + 4096, {at}, Hdr(FALSE, "little"),
          <<Page(512, 2, SchemaSubs(2, "null", 2), MixBase(7), 2)>>) :
        at \in {HEADER_SIZE, 2 * HEADER_SIZE}}

\* Files whose header gives a page_length that is not positive, with bytes
\* after the header.
NoLengthFiles ==
    {File(1024 + 4096, {0}, [Hdr(FALSE, "little") EXCEPT !.page_length = l],
          <<Page(PAGE_META_TYPE, 0, SchemaSubs(1, "null", 2), 0, 0)>>) :
        l \in {0, -8, -2000}}

Files ==
    PagedFiles \cup BrokenFiles \cup SkipFiles \cup ZeroLengthFiles \cup ShiftedFiles
    \cup NoLengthFiles

\* <<skipHeader, rowFormat, alignCorrection>>
Options ==
    {<<FALSE, "array", TRUE>>, <<TRUE, "array", TRUE>>, <<FALSE, "object", TRUE>>,
     <<TRUE, "object", TRUE>>, <<TRUE, "array", FALSE>>}

\* ------------------------------------------------------- the state machine

\* new SAS7BDAT(file, options)
Constructed(o) ==
    [open |-> TRUE, file_pos |-> 0, cached_page |-> NoBuf,
     current_page_type |-> Null, current_page_block_count |-> Null,
     current_page_subheaders_count |-> Null,
     current_page_data_subheader_pointers |-> <<>>,
     current_row |-> NoRow,
     column_names_strings |-> <<>>, column_names |-> <<>>, column_types |-> <<>>,
     column_data_offsets |-> <<>>, column_data_lengths |-> <<>>, columns |-> <<>>,
     column_names_strings_decoded |-> Null,
     header |-> FALSE, endianess |-> "null", u64 |-> FALSE,
     parsed_header |-> FALSE, sent_header |-> FALSE,
     current_row_in_file_index |-> 0, current_row_on_page_index |-> 0,
     skip_header |-> o[1], row_format |-> o[2], align_correction |-> o[3]]

NoCall ==
    [kind |-> "none", err |-> NoErr, row |-> NoRow, names |-> <<>>, reads |-> <<>>,
     decoded |-> <<>>, paged |-> <<>>,
     parsed_before |-> FALSE, pos_before |-> 0, open_before |-> TRUE, rows_before |-> 0,
     index_before |-> 0, returned_before |-> NoRow, ended_before |-> FALSE,
     header_failed_before |-> FALSE]

Idle == <<>>

Init ==
    /\ file \in Files
    /\ \E o \in Options : sas = Constructed(o)
    /\ properties = SASProperties
    /\ last = NoCall
    /\ hist = [rows |-> 0, headers |-> 0, failed |-> FALSE, first |-> "none", returned |-> NoRow,
               ended |-> FALSE, header_failed |-> FALSE]
    /\ rle_in = Idle /\ rle_out = Idle
    /\ sub_in = Idle /\ sub_out = Idle
    /\ val_in = Idle /\ val_out = Idle
    /\ calls = Idle

\* One call of readline(), from its start to the value it resolves to or the
\* error it rejects with.
ReadLine ==
    \E R \in {readline(Entry(sas, properties))} :
    LET kind == R.ret.kind
    IN  /\ sas' = R.S.sas
        /\ properties' = R.S.props
        /\ last' = [kind |-> kind, err |-> R.S.err, row |-> R.ret.row,
                    names |-> R.ret.names, reads |-> R.S.reads, decoded |-> R.S.decoded,
                    paged |-> R.S.paged,
                    parsed_before |-> sas.parsed_header, pos_before |-> sas.file_pos,
                    open_before |-> sas.open, rows_before |-> hist.rows,
                    index_before |-> sas.current_row_in_file_index,
                    returned_before |-> hist.returned, ended_before |-> hist.ended,
                    header_failed_before |-> hist.header_failed]
        /\ hist' = [rows |-> IF kind = "row" THEN Min(hist.rows + 1, MaxRows + 2) ELSE hist.rows,
                    headers |-> IF kind = "header" THEN Min(hist.headers + 1, 2) ELSE hist.headers,
                    failed |-> hist.failed \/ kind = "error",
                    first |-> IF hist.first = "none" /\ kind # "error" THEN kind ELSE hist.first,
                    returned |-> IF kind = "row" THEN R.ret.row ELSE hist.returned,
                    ended |-> hist.ended \/ kind = "null",
                    header_failed |-> hist.header_failed
                                      \/ (~sas.parsed_header
                                          /\ R.S.err \in {ErrHeaderShort, ErrMagic})]
        /\ UNCHANGED <<file, rle_in, rle_out, sub_in, sub_out, val_in, val_out, calls>>

Next == ReadLine

Spec == Init /\ [][Next]_vars


\* ------------------------------------- decompress_row on its own (SpecRLE)
\* Bounds: the bytes of the page handed to decompress_row, and the
\* result_length asked for.
MaxPageBytes == 3
MaxResult == 5

\* One control byte of each kind, and 'A' (0x41), which as a control byte is
\* of the 0x40 family: 0x00, 0x10 (no family), 0x41, 0x60, 0x81, 0xC0, 0xE0.
ByteSample == {0, 16, 65, 96, 129, 192, 224}

RleInputs ==
    {[page |-> pg, offset |-> o, length |-> n, result_length |-> m] :
        pg \in SeqsUpTo(ByteSample, MaxPageBytes) \ {<<>>},
        o \in 0..1, n \in 1..MaxPageBytes, m \in 0..MaxResult}

\* Streams around fill records: 0xE0, a byte x, 0xC0 'X', 0xF0, a byte y, to
\* give 7 bytes; and the same without x and y.
FillInputs ==
    {[page |-> <<224, x, 192, 88, 240, y>>, offset |-> 0, length |-> 6, result_length |-> 7] :
        x \in ByteSample, y \in ByteSample}
    \cup {[page |-> <<224, 192, 88, 240>>, offset |-> 0, length |-> 4, result_length |-> 7]}

\* Bound: the byte after the control byte of the long records.
MaxNext == 2

\* 330 bytes, no two neighbours alike, for records to copy from.
Payload == [k \in 1..330 |-> (k * 37) % 256]

\* The bytes the record that starts at index i of the stream holds beyond its
\* control byte and the byte after it: the stream is sized to hold them.
RecordLength(byte, next, cut) ==
    LET hi == (byte \div 16) * 16
        lo == byte % 16
    IN  CASE hi = 0 -> IF cut THEN 1 ELSE 2 + next + 64 + lo * 256
          [] hi = 64 -> 3
          [] hi \in {96, 112, 192} -> 2
          [] hi \in {128, 144, 160, 176} ->
                1 + (lo + 1 + (hi - 128)) - (IF cut THEN 1 ELSE 0)
          [] OTHER -> 1

\* Streams of one record of each family, after lead fill records (0xD0) and
\* offset bytes that are not of the stream; cut: the stream ends one byte
\* early (a short copy) or with the control byte (a long copy). result: what
\* the records are to give.
FamilyInputs ==
    {[page |-> Repeat(255, offset) \o Repeat(208, lead) \o <<byte, next>> \o Payload,
      offset |-> offset, length |-> lead + RecordLength(byte, next, cut),
      lead |-> lead, cut |-> cut] :
        byte \in {hi + lo : hi \in {0, 64, 96, 112}, lo \in {0, 1}}
                 \cup {hi + lo : hi \in {128, 144, 160, 176, 192, 208, 224, 240},
                                 lo \in {0, 1, 15}},
        next \in 0..MaxNext, offset \in {0, 1}, lead \in {0, 1}, cut \in BOOLEAN}

\* The first byte of the record of a FamilyInputs stream, 0-based in the page.
RecordPos(x) == x.offset + x.lead

\* The bytes section 4.6 of the specification has the record at pos emit,
\* length being that of the stream and i the record's index in it.
Effect(page, pos, length, i) ==
    LET hi == (page[pos + 1] \div 16) * 16
        lo == page[pos + 1] % 16
        next == page[pos + 2]
    IN  CASE hi = 0 ->
                IF i = length - 1 THEN <<>>
                ELSE SubSeq(page, pos + 3, pos + 2 + (next % 256) + 64 + lo * 256)
          [] hi = 64 -> Repeat(page[pos + 3], lo * 16 + next + 18)
          [] hi = 96 -> Repeat(32, lo * 256 + next + 17)
          [] hi = 112 -> Repeat(0, lo * 256 + next + 17)
          [] hi = 128 -> SubSeq(page, pos + 2, pos + 1 + Min(lo + 1, length - (i + 1)))
          [] hi = 144 -> SubSeq(page, pos + 2, pos + 1 + Min(lo + 17, length - (i + 1)))
          [] hi = 160 -> SubSeq(page, pos + 2, pos + 1 + Min(lo + 33, length - (i + 1)))
          [] hi = 176 -> SubSeq(page, pos + 2, pos + 1 + Min(lo + 49, length - (i + 1)))
          [] hi = 192 -> Repeat(page[pos + 2], lo + 3)
          [] hi = 208 -> Repeat(64, lo + 2)
          [] hi = 224 -> Repeat(32, lo + 2)
          [] hi = 240 -> Repeat(0, lo + 2)

\* A FamilyInputs stream as arguments of decompress_row: result_length is
\* the number of bytes the table gives its records.
FamilyCall(x) ==
    [page |-> x.page, offset |-> x.offset, length |-> x.length,
     result_length |-> 2 * x.lead + Len(Effect(x.page, RecordPos(x), x.length, x.lead)),
     family |-> <<x.lead, x.cut>>]

RleInit ==
    /\ rle_in \in {x \in RleInputs : x.offset + x.length <= Len(x.page)} \cup FillInputs
                  \cup {FamilyCall(x) : x \in FamilyInputs}
    /\ rle_out = Idle
    /\ file = Idle /\ sas = Idle /\ properties = Idle /\ last = Idle /\ hist = Idle
    /\ sub_in = Idle /\ sub_out = Idle
    /\ val_in = Idle /\ val_out = Idle
    /\ calls = Idle

RleRun ==
    /\ rle_out = Idle
    /\ rle_out' = <<decompress_row(rle_in.offset, rle_in.length, rle_in.result_length,
                                   rle_in.page)>>
    /\ UNCHANGED <<file, sas, properties, last, hist, rle_in, sub_in, sub_out, val_in, val_out, calls>>

SpecRLE == RleInit /\ [][RleRun]_vars

\* ------------------- the RowSize and ColumnSize handlers on their own (SpecSub)
\* Every choice of which of the fields the two handlers guard is already set
\* (to 7), met by a RowSize or a ColumnSize subheader.
Guarded ==
    {"row_length", "row_count", "col_count_p1", "col_count_p2", "mix_page_row_count",
     "column_count"}

PropertiesWith(set) ==
    [f \in DOMAIN SASProperties |->
        IF f \in set THEN Some(7) ELSE SASProperties[f]]

SubInputs ==
    {[props |-> PropertiesWith(set), sub |-> sub] :
        set \in SUBSET (Guarded \cup {"lcs"}),
        sub \in {RowSizeSub(0), RowSizeSub(MaxRows), ColumnSizeSub(2)}}

SubInit ==
    /\ sub_in \in SubInputs
    /\ sub_out = Idle
    /\ file = Idle /\ sas = Idle /\ properties = Idle /\ last = Idle /\ hist = Idle
    /\ rle_in = Idle /\ rle_out = Idle
    /\ val_in = Idle /\ val_out = Idle
    /\ calls = Idle

\* cls.process_subheader(pointer.offset, pointer.length) for the class of the
\* subheader's signature.
SubRun ==
    /\ sub_out = Idle
    /\ sub_out' = <<ProcessSubheader(
                      Entry(Constructed(<<FALSE, "array", TRUE>>), sub_in.props),
                      sub_in.sub.sig, sub_in.sub)>>
    /\ UNCHANGED <<file, sas, properties, last, hist, rle_in, rle_out, sub_in, val_in, val_out, calls>>

SpecSub == SubInit /\ [][SubRun]_vars

\* --------------------- the offset of the rows of a MIX page on its own (SpecMix)
\* Bound: the subheader pointers of the page.
MaxPointers == 15

\* A reader in either layout whose current page is a MIX page of n subheader
\* pointers, about to decode the page's first row.
MixInit ==
    /\ \E o \in Options, u \in BOOLEAN, n \in 0..MaxPointers :
          /\ sas = [Constructed(o) EXCEPT !.u64 = u, !.parsed_header = TRUE,
                                          !.current_page_type = Some(512),
                                          !.current_page_subheaders_count = Some(n)]
          /\ properties = [SASProperties EXCEPT !.u64 = u, !.row_length = Some(5)]
    /\ last = Idle
    /\ file = Idle /\ hist = Idle
    /\ rle_in = Idle /\ rle_out = Idle /\ sub_in = Idle /\ sub_out = Idle
    /\ val_in = Idle /\ val_out = Idle
    /\ calls = Idle

\* align_correction and offset as the MIX branch of readline computes them.
MixRun ==
    /\ last = Idle
    /\ \E S \in {Entry(sas, properties)} :
          last' = <<[align_correction |-> MixAlignCorrection(S), offset |-> MixRowOffset(S)]>>
    /\ UNCHANGED <<file, sas, properties, hist, rle_in, rle_out, sub_in, sub_out, val_in, val_out, calls>>

SpecMix == MixInit /\ [][MixRun]_vars

\* ------------------------------------ the decoding of a number (SpecVal)
\* A raw number is [kind, whole]: the double 86400 * whole ("finite"), NaN
\* ("nan") or an infinity ("inf"). An instant of Date is [valid, day]: a whole
\* number of days from 1970-01-01, or Invalid Date.

\* 24 * 60 * 60, the seconds of a day
DAY_SECONDS == 86400
\* new Date('1960-01-01'), in days from 1970-01-01
EPOCH_DAY == -3653
\* The range of Date: 8.64e15 ms, in days, on either side of 1970-01-01
MAX_DATE_DAY == 100000000

DATE_FORMAT_STRINGS == {"YYMMDD", "MMDDYY", "DDMMYY", "DATE", "JULIAN", "MONYY", "WEEKDATE"}

Raw(kind, whole) == [kind |-> kind, whole |-> whole]

\* whole * 86400, cut where every product is past the range of Date.
TimesDay(whole) ==
    LET cut == (MAX_DATE_DAY - EPOCH_DAY) \div DAY_SECONDS + 1
    IN  DAY_SECONDS * Max(-cut, Min(cut, whole))

\* new Date(epoch + offset_from_epoch * 1000), offset_from_epoch multiplied
\* by 24 * 60 * 60 first when the units are days.
NewDate(raw, units) ==
    LET day == EPOCH_DAY + (IF units = "days" THEN TimesDay(raw.whole) ELSE raw.whole)
    IN  IF raw.kind = "finite" /\ day >= -MAX_DATE_DAY /\ day <= MAX_DATE_DAY
        THEN [valid |-> TRUE, day |-> day]
        ELSE [valid |-> FALSE, day |-> 0]

ValOk(as, day) == [err |-> NoErr, as |-> as, day |-> day]
ErrRange == "RangeError"

\* The default date_formatter: toISOString throws on Invalid Date; its
\* slices are the date for 'date' and the time of day for 'time'.
date_formatter(d, output_format) ==
    IF ~d.valid THEN [err |-> ErrRange, as |-> "none", day |-> 0]
    ELSE IF output_format = "time" THEN ValOk("time", 0)
    ELSE ValOk(output_format, d.day)

datetime(raw, units, output_format) == date_formatter(NewDate(raw, units), output_format)

\* _read_val decoding a date without the retry in seconds.
read_val_no_retry(fmt, raw) ==
    IF raw.kind = "nan" THEN ValOk("null", 0)
    ELSE CASE fmt = "datetime" -> datetime(raw, "seconds", "datetime")
           [] fmt = "time" -> datetime(raw, "seconds", "time")
           [] fmt = "date" -> datetime(raw, "days", "date")
           [] OTHER -> ValOk(raw.kind, raw.whole)

\* _read_val(fmt, raw_bytes, size) for fmt 'number', 'datetime', 'date' or
\* 'time', from the double that struct_unpack returned on.
read_val(fmt, raw) ==
    LET Try(r) == IF r.err # NoErr THEN datetime(raw, "seconds", "datetime") ELSE r
    IN  IF raw.kind = "nan" THEN ValOk("null", 0)
        ELSE CASE fmt = "datetime" -> datetime(raw, "seconds", "datetime")
               [] fmt = "time" -> datetime(raw, "seconds", "time")
               [] fmt = "date" -> Try(datetime(raw, "days", "date"))
               [] OTHER -> ValOk(raw.kind, raw.whole)

\* The fmt _process_byte_array_with_data hands to _read_val for a number
\* column longer than 2 bytes.
ValueFormat(format) ==
    IF format = "" THEN "number"
    ELSE IF format = "TIME" THEN "time"
    ELSE IF format = "DATETIME" THEN "datetime"
    ELSE IF format \in DATE_FORMAT_STRINGS THEN "date"
    ELSE "number"

\* Bound: the raw numbers around 0.
MaxWhole == 2

\* Raw numbers around 0 and on either side of the last valid date, as days
\* and as seconds.
RawNumbers ==
    {Raw("finite", w) : w \in -MaxWhole..MaxWhole}
    \cup {Raw("finite", sign * (edge + more)) :
            sign \in {-1, 1}, more \in 0..1,
            edge \in {(MAX_DATE_DAY - EPOCH_DAY) \div DAY_SECONDS, MAX_DATE_DAY - EPOCH_DAY,
                      MAX_DATE_DAY + EPOCH_DAY}}
    \cup {Raw("nan", 0), Raw("inf", 0)}

ValInit ==
    /\ val_in \in [format : {"", "TIME", "DATETIME", "DATE", "MMDDYY", "BEST"}, raw : RawNumbers]
    /\ val_out = Idle
    /\ file = Idle /\ sas = Idle /\ properties = Idle /\ last = Idle /\ hist = Idle
    /\ rle_in = Idle /\ rle_out = Idle /\ sub_in = Idle /\ sub_out = Idle
    /\ calls = Idle

ValRun ==
    /\ val_out = Idle
    /\ val_out' = <<read_val(ValueFormat(val_in.format), val_in.raw)>>
    /\ UNCHANGED <<file, sas, properties, last, hist, rle_in, rle_out, sub_in, sub_out, val_in, calls>>

SpecVal == ValInit /\ [][ValRun]_vars

\* -------------------------- the value of a number column (SpecCol)
\* Bound: the bytes of the column.
MaxLength == 3

\* An extra-format option: null, a string, or an array of strings.
NoExtra == [kind |-> "null", v |-> <<>>]
ExtraString(s) == [kind |-> "string", v |-> <<s>>]
ExtraArray(q) == [kind |-> "array", v |-> q]

Includes(arr, x) == \E k \in DOMAIN arr : arr[k] = x

\* format_strings.forEach: each string not yet in arr is pushed.
RECURSIVE PushNew(_, _)
PushNew(arr, strings) ==
    IF strings = <<>> THEN arr
    ELSE PushNew(IF Includes(arr, Head(strings)) THEN arr ELSE Append(arr, Head(strings)),
                 Tail(strings))

\* _update_format_strings(arr, format_strings): a string stands for the
\* array of that string (v holds it already).
update_format_strings(arr, format_strings) ==
    IF format_strings.kind = "null" THEN arr ELSE PushNew(arr, format_strings.v)

\* The three lists after the constructor.
FormatStrings(extra) ==
    [TIME_FORMAT_STRINGS |-> update_format_strings(<<"TIME">>, extra.time),
     DATE_TIME_FORMAT_STRINGS |-> update_format_strings(<<"DATETIME">>, extra.datetime),
     DATE_FORMAT_STRINGS |->
        update_format_strings(<<"YYMMDD", "MMDDYY", "DDMMYY", "DATE", "JULIAN", "MONYY",
                                "WEEKDATE">>, extra.date)]

\* raw_bytes.readInt16LE(0): a RangeError on a buffer of fewer than 2 bytes.
readInt16LE(raw_bytes) ==
    LET u == raw_bytes[1] + 256 * raw_bytes[2]
    IN  IF Len(raw_bytes) < 2 THEN [err |-> ErrRange, fmt |-> "h", val |-> 0]
        ELSE [err |-> NoErr, fmt |-> "h", val |-> IF u >= 32768 THEN u - 65536 ELSE u]

\* A value handed to _read_val as fmt: [err, fmt, val].
ReadAs(fmt, raw) ==
    LET Val(r) == [err |-> r.err, fmt |-> fmt, val |-> r]
    IN  Val(read_val(fmt, raw))

\* The branch of _process_byte_array_with_data for a column of type
\* 'number': temp, the bytes sliced for the column; raw, the double they
\* hold when there are more than 2.
NumberColumn(lists, length, temp, format, raw) ==
    IF length <= 2 THEN readInt16LE(Slice(temp, 0, length))
    ELSE IF format = "" THEN ReadAs("number", raw)
    ELSE IF Includes(lists.TIME_FORMAT_STRINGS, format) THEN ReadAs("time", raw)
    ELSE IF Includes(lists.DATE_TIME_FORMAT_STRINGS, format) THEN ReadAs("datetime", raw)
    ELSE IF Includes(lists.DATE_FORMAT_STRINGS, format) THEN ReadAs("date", raw)
    ELSE ReadAs("number", raw)

Extras ==
    {NoExtra, ExtraString("X"), ExtraString("DATE"), ExtraArray(<<"X", "TIME">>),
     ExtraArray(<<"Y", "X", "Y">>)}

ColInputs ==
    {[extra |-> [time |-> t, datetime |-> dt, date |-> d],
      length |-> Len(temp), temp |-> temp, format |-> f, raw |-> Raw("finite", 1)] :
        t \in Extras, dt \in Extras, d \in Extras,
        temp \in {q \in SeqsUpTo({0, 255}, MaxLength) : q # <<>>},
        f \in {"", "TIME", "DATETIME", "DATE", "X", "Y", "BEST"}}

ColInit ==
    /\ val_in \in ColInputs
    /\ val_out = Idle
    /\ file = Idle /\ sas = Idle /\ properties = Idle /\ last = Idle /\ hist = Idle
    /\ rle_in = Idle /\ rle_out = Idle /\ sub_in = Idle /\ sub_out = Idle
    /\ calls = Idle

ColRun ==
    /\ val_out = Idle
    /\ val_out' = <<NumberColumn(FormatStrings(val_in.extra), val_in.length, val_in.temp,
                                 val_in.format, val_in.raw)>>
    /\ UNCHANGED <<file, sas, properties, last, hist, rle_in, rle_out, sub_in, sub_out, val_in, calls>>

SpecCol == ColInit /\ [][ColRun]_vars

\* ------------------------- the bytes of numbers (SpecUnpack)
\* The bytes of a binary64 value, and of the longest integer field.
DoubleSize == 8

Reverse(q) == [k \in 1..Len(q) |-> q[Len(q) + 1 - k]]

\* An integer of n bytes, most significant first, as the 8 bytes of the
\* same two's complement value.
SignExtend(msb) ==
    [k \in 1..(DoubleSize - Len(msb)) |-> IF msb[1] >= 128 THEN 255 ELSE 0] \o msb

\* struct_unpack, case 'd': readDoubleBE / readDoubleLE of the first 8
\* bytes. The value is held as its bit pattern, most significant byte first.
readDouble(endian, raw_bytes) ==
    IF endian = "big" THEN Slice(raw_bytes, 0, 8) ELSE Reverse(Slice(raw_bytes, 0, 8))

\* struct_unpack, cases 'i' and 'q': readInt32 of the first 4 bytes,
\* readIntBE(0, 6) / readIntLE(0, 6) of the first 6.
readInt(endian, raw_bytes, byteLength) ==
    SignExtend(IF endian = "big" THEN Slice(raw_bytes, 0, byteLength)
               ELSE Reverse(Slice(raw_bytes, 0, byteLength)))

\* The prefix _read_val gives to the format: '>' only for 'big'.
Endian(endianess) == IF endianess = "big" THEN "big" ELSE "little"

\* read_double padding the other side of the field.
read_double_pad_after_little(endianess, raw_bytes) ==
    LET size == Len(raw_bytes)
        bytes_new == [k \in 1..(DoubleSize - size) |-> 0]
        padded == IF size >= DoubleSize THEN raw_bytes
                  ELSE IF endianess = "little" THEN raw_bytes \o bytes_new
                  ELSE bytes_new \o raw_bytes
    IN  [err |-> NoErr, fmt |-> "d", padded |-> padded,
         val |-> readDouble(Endian(endianess), padded)]

\* _read_val for 'number', 'datetime', 'date' and 'time', up to the value
\* unpacked: size is the length of raw_bytes.
read_double(endianess, raw_bytes) ==
    LET size == Len(raw_bytes)
        bytes_new == [k \in 1..(DoubleSize - size) |-> 0]
        padded == IF size >= DoubleSize THEN raw_bytes
                  ELSE IF endianess = "little" THEN bytes_new \o raw_bytes
                  ELSE raw_bytes \o bytes_new
    IN  [err |-> NoErr, fmt |-> "d", padded |-> padded,
         val |-> readDouble(Endian(endianess), padded)]

\* _read_val for 'i': 'q' for an 8-byte field of the 64-bit layout.
read_int(endianess, u64, raw_bytes, size) ==
    IF u64 /\ size = 8
    THEN [err |-> NoErr, fmt |-> "q", padded |-> raw_bytes,
          val |-> readInt(Endian(endianess), Slice(raw_bytes, 0, size), 6)]
    ELSE [err |-> NoErr, fmt |-> "i", padded |-> raw_bytes,
          val |-> readInt(Endian(endianess), Slice(raw_bytes, 0, size), 4)]

DoubleInputs ==
    {[fmt |-> "number", endianess |-> e, u64 |-> u, raw |-> q, size |-> Len(q)] :
        e \in {"little", "big"}, u \in {FALSE},
        q \in {r \in SeqsUpTo({0, 63, 240}, DoubleSize) : r # <<>>}}

IntInputs ==
    {[fmt |-> "i", endianess |-> e, u64 |-> u, raw |-> q, size |-> Len(q)] :
        e \in {"little", "big"}, u \in BOOLEAN,
        q \in {r \in SeqsUpTo({0, 1, 128}, DoubleSize) : Len(r) \in {4, 8}}}

UnpackInit ==
    /\ val_in \in DoubleInputs \cup IntInputs
    /\ val_out = Idle
    /\ file = Idle /\ sas = Idle /\ properties = Idle /\ last = Idle /\ hist = Idle
    /\ rle_in = Idle /\ rle_out = Idle /\ sub_in = Idle /\ sub_out = Idle
    /\ calls = Idle

ReadDouble ==
    /\ val_out = Idle
    /\ val_in.fmt = "number"
    /\ val_out' = <<read_double(val_in.endianess, val_in.raw)>>
    /\ UNCHANGED <<file, sas, properties, last, hist, rle_in, rle_out, sub_in, sub_out, val_in, calls>>

ReadInt ==
    /\ val_out = Idle
    /\ val_in.fmt = "i"
    /\ val_out' = <<read_int(val_in.endianess, val_in.u64, val_in.raw, val_in.size)>>
    /\ UNCHANGED <<file, sas, properties, last, hist, rle_in, rle_out, sub_in, sub_out, val_in, calls>>

UnpackNext == ReadDouble \/ ReadInt

SpecUnpack == UnpackInit /\ [][UnpackNext]_vars

\* --------------------------- readline calls that overlap (SpecAsync)
\* readline is an async function: a call runs until an await, and other calls
\* may start or resume before it goes on. The awaits of SASHeader.parse() are
\* the steps taken here; what follows parse() in a call (the metadata walk and
\* the rest of readline) is taken in one step, as is a call that finds
\* parsed_header set.

\* Bound: the readline calls issued.
MaxCalls == 2
CallIds == 1..MaxCalls

\* The header fields as read from 288 bytes that are not the start of the
\* file: padding, whose byte 37 is not 0x01.
ZeroHdr ==
    [u64 |-> FALSE, endian |-> "big", align1 |-> 0, header_length |-> 0, page_length |-> 0]

HeaderAt(at, len) == IF at = 0 /\ len >= HEADER_SIZE THEN file.hdr ELSE ZeroHdr

\* A call not issued yet. n, at: what its latest read_file gave and where;
\* u64, vals: the locals align_vals and vals of parse(); props: the
\* SASProperties of the SASHeader the call constructed.
NotIssued ==
    [pc |-> "idle", n |-> 0, at |-> 0, u64 |-> FALSE, vals |-> ZeroHdr,
     props |-> SASProperties, kind |-> "none", err |-> NoErr]

Reject(call, e) == [call EXCEPT !.pc = "rejected", !.kind = "error", !.err = e]

\* The call resolves or rejects with what the rest of readline gave.
Settle(call, R) ==
    [call EXCEPT !.pc = IF R.ret.kind = "error" THEN "rejected" ELSE "resolved",
                 !.kind = R.ret.kind, !.err = R.S.err]

\* The calls after call c became rec and the SASProperties of header owner
\* became p.
Update(c, rec, owner, p) ==
    [d \in CallIds |->
        IF d = c /\ d = owner THEN [rec EXCEPT !.props = p]
        ELSE IF d = c THEN rec
        ELSE IF d = owner THEN [calls[d] EXCEPT !.props = p]
        ELSE calls[d]]

\* k reads of call c, appended to the log of reads.
RECURSIVE Tagged(_, _)
Tagged(c, k) == IF k = 0 THEN <<>> ELSE <<c>> \o Tagged(c, k - 1)

AsyncFiles ==
    {File(1024 + 4096 * Len(pages), {0}, Hdr(FALSE, "little"), pages) :
        pages \in WholePages(1)}
    \cup BrokenFiles

\* hist: parses, the SASHeader.parse() calls started; log, the call of each
\* read_file, in the order of the reads; header, the call whose SASHeader
\* this.header is; alias, the call whose SASProperties this.properties is;
\* cached_at, the file position of the header bytes in cached_page (-1: a page).
AsyncInit ==
    /\ file \in AsyncFiles
    /\ \E o \in Options : sas = Constructed(o)
    /\ properties = SASProperties
    /\ calls = [c \in CallIds |-> NotIssued]
    /\ hist = [parses |-> 0, log |-> <<>>, header |-> 0, alias |-> 0, cached_at |-> 0]
    /\ last = Idle
    /\ rle_in = Idle /\ rle_out = Idle
    /\ sub_in = Idle /\ sub_out = Idle
    /\ val_in = Idle /\ val_out = Idle

\* readline() is called: with parsed_header set it runs to its end; otherwise
\* parse_header() makes a new SASHeader and parse() reads 288 bytes, and the
\* call is suspended at that await.
Issue(c) ==
    /\ calls[c].pc = "idle"
    /\ \A d \in CallIds : d < c => calls[d].pc # "idle"
    /\ IF sas.parsed_header
       THEN \E R \in {readline(Entry(sas, properties))} :
                /\ sas' = R.S.sas
                /\ properties' = R.S.props
                /\ calls' = Update(c, Settle(calls[c], R), hist.alias, R.S.props)
                /\ hist' = [hist EXCEPT !.log = @ \o Tagged(c, Len(R.S.reads)),
                                        !.cached_at = IF R.S.reads = <<>> THEN @ ELSE -1]
       ELSE \E r \in {read_file(Entry(sas, properties), HEADER_SIZE)} :
                /\ sas' = [r.S.sas EXCEPT !.header = TRUE]
                /\ calls' = [calls EXCEPT ![c] =
                                IF Failed(r.S) THEN Reject(@, r.S.err)
                                ELSE [@ EXCEPT !.pc = "read288", !.n = r.n, !.at = r.at]]
                /\ hist' = [hist EXCEPT !.parses = @ + 1, !.header = c,
                                        !.log = Append(@, c)]
                /\ UNCHANGED properties
    /\ UNCHANGED <<file, last, rle_in, rle_out, sub_in, sub_out, val_in, val_out>>

\* parse() resumes with its 288 bytes: cached_page, the length and magic
\* number tests, and _read_bytes of the two alignment bytes.
Resume288(c) ==
    /\ calls[c].pc = "read288"
    /\ sas' = [sas EXCEPT !.cached_page = Buf(calls[c].n, 0)]
    /\ hist' = [hist EXCEPT !.cached_at = calls[c].at]
    /\ calls' = [calls EXCEPT ![c] =
                    IF @.n < HEADER_SIZE THEN Reject(@, ErrHeaderShort)
                    ELSE IF ~check_magic_number(@.at) THEN Reject(@, ErrMagic)
                    ELSE [@ EXCEPT !.pc = "align",
                                   !.u64 = HeaderAt(calls[c].at, calls[c].n).u64]]
    /\ UNCHANGED <<file, properties, last, rle_in, rle_out, sub_in, sub_out, val_in, val_out>>

\* parse() resumes with align_vals: properties.u64, and _read_bytes of the
\* header fields from the cached_page of that moment.
ResumeAlign(c) ==
    /\ calls[c].pc = "align"
    /\ \E p \in {[calls[c].props EXCEPT !.u64 = calls[c].u64]} :
        /\ calls' = Update(c, [calls[c] EXCEPT !.pc = "vals",
                                               !.vals = HeaderAt(hist.cached_at,
                                                                 sas.cached_page.len)],
                           c, p)
        /\ properties' = IF hist.alias = c THEN p ELSE properties
    /\ UNCHANGED <<file, sas, last, hist, rle_in, rle_out, sub_in, sub_out, val_in, val_out>>

\* parse() resumes with vals: endianess, the dataset name (struct_unpack
\* throws on a big-endian one), header_length, and read_file of the rest of
\* the header.
ResumeVals(c) ==
    /\ calls[c].pc = "vals"
    /\ \E v \in {calls[c].vals} :
       \E p \in {[calls[c].props EXCEPT !.endianess = v.endian]} :
       \E q \in {[p EXCEPT !.name = "name", !.header_length = Some(v.header_length)]} :
       \E r \in {read_file(Entry([sas EXCEPT !.endianess = v.endian], q),
                           v.header_length - HEADER_SIZE)} :
        IF v.endian = "big"
        THEN /\ sas' = [sas EXCEPT !.endianess = v.endian]
             /\ calls' = Update(c, Reject(calls[c], ErrBigEndian), c, p)
             /\ properties' = IF hist.alias = c THEN p ELSE properties
             /\ UNCHANGED hist
        ELSE /\ sas' = r.S.sas
             /\ calls' = Update(c, IF Failed(r.S) THEN Reject(calls[c], r.S.err)
                                   ELSE [calls[c] EXCEPT !.pc = "readrest", !.n = r.n],
                                c, q)
             /\ properties' = IF hist.alias = c THEN q ELSE properties
             /\ hist' = [hist EXCEPT !.log = Append(@, c)]
    /\ UNCHANGED <<file, last, rle_in, rle_out, sub_in, sub_out, val_in, val_out>>

\* parse() resumes with the rest of the header: it is appended to the
\* cached_page of that moment, and the length of the whole is tested.
ResumeRest(c) ==
    /\ calls[c].pc = "readrest"
    /\ \E len \in {sas.cached_page.len + calls[c].n} :
       \E p \in {[calls[c].props EXCEPT !.page_length = Some(calls[c].vals.page_length)]} :
        IF len # Num(calls[c].props.header_length)
        THEN /\ sas' = [sas EXCEPT !.cached_page = Buf(len, 0)]
             /\ calls' = [calls EXCEPT ![c] = Reject(@, ErrHeaderShort)]
             /\ UNCHANGED properties
        ELSE /\ sas' = [sas EXCEPT !.cached_page = Buf(len, 0), !.u64 = p.u64]
             /\ calls' = Update(c, [calls[c] EXCEPT !.pc = "parsed"], c, p)
             /\ properties' = IF hist.alias = c THEN p ELSE properties
    /\ UNCHANGED <<file, last, hist, rle_in, rle_out, sub_in, sub_out, val_in, val_out>>

\* parse_header() resumes after parse(): this.properties becomes the
\* properties of this.header, whose parse_metadata() runs; then readline sets
\* parsed_header and goes on to its end.
ResumeParsed(c) ==
    /\ calls[c].pc = "parsed"
    /\ \E M \in {parse_metadata(Entry(sas, calls[hist.header].props))} :
       \E R \in {IF Failed(M) THEN Thrown(M)
                 ELSE readline([M EXCEPT !.sas.parsed_header = TRUE])} :
        /\ sas' = R.S.sas
        /\ properties' = R.S.props
        /\ calls' = Update(c, Settle(calls[c], R), hist.header, R.S.props)
        /\ hist' = [hist EXCEPT !.alias = hist.header,
                                !.log = @ \o Tagged(c, Len(R.S.reads)),
                                !.cached_at = IF R.S.reads = <<>> THEN @ ELSE -1]
    /\ UNCHANGED <<file, last, rle_in, rle_out, sub_in, sub_out, val_in, val_out>>

AsyncNext ==
    \E c \in CallIds :
        \/ Issue(c)
        \/ Resume288(c)
        \/ ResumeAlign(c)
        \/ ResumeVals(c)
        \/ ResumeRest(c)
        \/ ResumeParsed(c)

SpecAsync == AsyncInit /\ [][AsyncNext]_vars

\* ---------------------- process_page_metadata, pointer by pointer (SpecPtr)
\* Bound: the subheader pointers of the page.
MaxSubs == 2

\* Subheaders of the table's signatures, one of them behind a pointer that
\* looks like that of a compressed row, and subheaders of no known signature
\* behind pointers of every kind.
PtrSubs ==
    {RowSizeSub(1), ColumnSizeSub(2), ColumnTextSub(RLE_COMPRESSION),
     Sub("column_size", 12, COMPRESSED_SUBHEADER_ID, COMPRESSED_SUBHEADER_TYPE,
         [column_count |-> 2]),
     Sub("subheader_counts", 12, 0, 0, <<>>), Sub("column_list", 12, 0, 0, <<>>)}
    \cup {DataSub(<<192, 65, 224>>, len, c, t) :
            len \in {0, 3}, c \in {0, TRUNCATED_SUBHEADER_ID, 2, COMPRESSED_SUBHEADER_ID},
            t \in {0, COMPRESSED_SUBHEADER_TYPE}}

PtrFiles ==
    {File(1024 + 4096, {0}, Hdr(FALSE, "little"), <<Page(PAGE_META_TYPE, 0, subs, 0, 0)>>) :
        subs \in SeqsUpTo(PtrSubs, MaxSubs) \ {<<>>}}

\* The page has been read and read_page_header has run; properties.compression
\* is what an earlier page left.
PtrInit ==
    /\ file \in PtrFiles
    /\ sas = [Constructed(<<TRUE, "array", TRUE>>) EXCEPT
                !.file_pos = 1024 + 4096, !.cached_page = Buf(4096, 1),
                !.current_page_type = Some(PAGE_META_TYPE),
                !.current_page_block_count = Some(0),
                !.current_page_subheaders_count = Some(Len(file.pages[1].subs))]
    /\ \E c \in {"null", RLE_COMPRESSION} :
          properties = [SASProperties EXCEPT !.header_length = Some(1024),
                                             !.page_length = Some(4096),
                                             !.compression = c]
    /\ sub_in = 0
    /\ sub_out = Idle
    /\ last = Idle /\ hist = Idle
    /\ rle_in = Idle /\ rle_out = Idle
    /\ val_in = Idle /\ val_out = Idle
    /\ calls = Idle

\* One iteration of the loop of process_page_metadata, for pointer sub_in:
\* sub_out keeps what the iteration found and whether it threw.
PtrStep ==
    /\ sub_in < Num(sas.current_page_subheaders_count)
    /\ IF sub_out = Idle THEN TRUE ELSE sub_out[1].err = NoErr
    /\ \E R \in {ProcessPointers(
                    Entry([sas EXCEPT !.current_page_subheaders_count = Some(sub_in + 1)],
                          properties),
                    sub_in)} :
        /\ sas' = [R.sas EXCEPT
                     !.current_page_subheaders_count = sas.current_page_subheaders_count]
        /\ properties' = R.props
        /\ sub_out' = <<[sas |-> sas, props |-> properties, i |-> sub_in, err |-> R.err]>>
    /\ sub_in' = sub_in + 1
    /\ UNCHANGED <<file, last, hist, rle_in, rle_out, val_in, val_out, calls>>

SpecPtr == PtrInit /\ [][PtrStep]_vars

\* --------------------- the page loops, one iteration a step (SpecPages)
\* What an iteration did: the position at and the length n of its read, the
\* page_length asked for, where the loop stands after it and the error thrown.
Iteration(S, r, pc) ==
    [S |-> r.S, at |-> S.sas.file_pos, n |-> r.n, page_length |-> Num(S.props.page_length),
     pc |-> pc, err |-> r.S.err]

\* One iteration of parse_metadata with no break on an empty read.
WalkIterationNoBreak(S) ==
    LET Walked(r, m) ==
            Iteration(S, [S |-> m.S, n |-> r.n],
                      IF Failed(m.S) THEN "failed" ELSE IF m.done THEN "walked" ELSE "walk")
        Read(r) ==
            IF Failed(r.S) THEN Iteration(S, r, "failed")
            ELSE IF r.n # Num(S.props.page_length) /\ r.n > 0
                 THEN Iteration(S, [S |-> Throw(r.S, ErrMetaPage), n |-> r.n], "failed")
            ELSE Walked(r, process_page_meta(r.S))
    IN  Read(ReadPage(S))

\* One iteration of the loop of parse_metadata.
WalkIteration(S) ==
    LET Walked(r, m) ==
            Iteration(S, [S |-> m.S, n |-> r.n],
                      IF Failed(m.S) THEN "failed" ELSE IF m.done THEN "walked" ELSE "walk")
        Read(r) ==
            IF Failed(r.S) THEN Iteration(S, r, "failed")
            ELSE IF r.n <= 0 THEN Iteration(S, r, "walked")
            ELSE IF r.n # Num(S.props.page_length)
                 THEN Iteration(S, [S |-> Throw(r.S, ErrMetaPage), n |-> r.n], "failed")
            ELSE Walked(r, process_page_meta(r.S))
    IN  Read(ReadPage(S))

\* One activation of _read_next_page, up to its return or its recursive call.
NextPageCall(S) ==
    LET Processed(r, S2) ==
            Iteration(S, [S |-> S2, n |-> r.n],
                      IF Failed(S2) THEN "failed"
                      ELSE IF Num(S2.sas.current_page_type) \notin ReadTypes THEN "skip"
                      ELSE "returned")
        Header(r, S1) ==
            Processed(r, IF S1.sas.current_page_type = Some(PAGE_META_TYPE)
                         THEN process_page_metadata(S1) ELSE S1)
        Read(r) ==
            IF Failed(r.S) THEN Iteration(S, r, "failed")
            ELSE IF r.n <= 0 THEN Iteration(S, r, "returned")
            ELSE IF r.n # Num(S.props.page_length)
                 THEN Iteration(S, [S |-> Throw(r.S, ErrPage), n |-> r.n], "failed")
            ELSE Header(r, Paged(read_page_header(r.S), "next"))
    IN  Read(ReadPage([S EXCEPT !.sas.current_page_data_subheader_pointers = <<>>]))

\* Pages of few subheaders, of every kind of type: META without and with a
\* row, MIX, DATA, AMD, and types that are skipped.
WalkPages ==
    {Page(PAGE_META_TYPE, 0, <<>>, 0, 0), Page(PAGE_META_TYPE, 0, <<RleRow>>, 0, 0),
     Page(512, 2, <<Unused>>, MixBase(1), 2), Page(PAGE_DATA_TYPE, 2, <<>>, DataBase, 2),
     Page(PAGE_AMD_TYPE, 0, <<RleRow>>, 0, 0), Page(PAGE_METC_TYPE, 0, <<>>, 0, 0),
     Page(PAGE_COMP_TYPE, 0, <<>>, 0, 0), Page(7, 0, <<>>, 0, 0)}

\* Bound: the pages of a file walked.
MaxWalk == 3

\* Files of up to MaxWalk such pages, and 100 bytes more or not; files of at
\* most one page whose page_length is not positive; the files of pages that
\* are skipped after a first page of the whole schema.
WalkFiles ==
    {File(1024 + 4096 * Len(pages) + cut, {0}, Hdr(FALSE, "little"), pages) :
        pages \in SeqsUpTo(WalkPages, MaxWalk), cut \in {0, 100}}
    \cup {File(1024 + 4096 * Len(pages) + cut, {0},
               [Hdr(FALSE, "little") EXCEPT !.page_length = l], pages) :
            pages \in SeqsUpTo(WalkPages, 1), cut \in {0, 100}, l \in {0, -8, -2000}}
    \cup SkipFiles

\* The reader after parse() has read the header of the file.
PagesInit ==
    /\ file \in WalkFiles
    /\ \E o \in Options :
         \E P \in {parse(Entry([Constructed(o) EXCEPT !.header = TRUE], SASProperties))} :
            /\ P.err = NoErr
            /\ sas = P.sas
            /\ properties = P.props
    /\ sub_in = "walk"
    /\ sub_out = Idle
    /\ last = Idle /\ hist = Idle /\ rle_in = Idle /\ rle_out = Idle
    /\ val_in = Idle /\ val_out = Idle /\ calls = Idle

Stepped(R) ==
    /\ sas' = R.S.sas
    /\ properties' = R.S.props
    /\ sub_in' = R.pc
    /\ sub_out' = <<[at |-> R.at, n |-> R.n, page_length |-> R.page_length, pc |-> R.pc,
                     err |-> R.err, from |-> sub_in]>>
    /\ UNCHANGED <<file, last, hist, rle_in, rle_out, val_in, val_out, calls>>

WalkStep ==
    /\ sub_in = "walk"
    /\ \E R \in {WalkIteration(Entry(sas, properties))} : Stepped(R)

\* _read_next_page: called by readline once the walk is over, and by itself.
NextPageStep ==
    /\ sub_in \in {"walked", "returned", "skip"}
    /\ \E R \in {NextPageCall(Entry(sas, properties))} : Stepped(R)

PagesNext == WalkStep \/ NextPageStep

SpecPages == PagesInit /\ [][PagesNext]_vars

\* ------------------------------------------------ the row stream's claims
\* hist and last record what the readline calls gave their caller.

Called == last.kind # "none"

\* The number of data rows the schema declares: none for an unset or
\* negative row_count.
Declared == Max(0, Num(properties.row_count))

\* The reads of pages made by the latest call.
PageReads == {k \in DOMAIN last.reads : last.reads[k].page /\ last.reads[k].n > 0}

\* The type of the page a read returned (-1 for an incomplete page).
TypeRead(rd) == IF rd.pidx > 0 THEN file.pages[rd.pidx].type ELSE -1

C2_AsStated ==
    /\ (~sas.skip_header /\ hist.first # "none") => hist.first = "header"
    /\ hist.headers <= 1
    /\ sas.skip_header => hist.headers = 0

HeaderDue == ~sas.skip_header /\ sas.row_format = "array"

\* C2, amended: with skip_header false and row_format 'array' the first value
\* returned is the header row, before any data row, and no later call returns
\* one; with skip_header true or another row_format no header row is ever
\* returned.
C2_HeaderRow ==
    /\ (HeaderDue /\ hist.first # "none") => hist.first = "header"
    /\ hist.headers <= 1
    /\ ~HeaderDue => hist.headers = 0
    /\ last.kind = "header" => (last.rows_before = 0 /\ hist.rows = 0 /\ hist.headers = 1)

C2_Witness ==
    /\ HeaderDue /\ hist.first = "header" /\ hist.headers = 1
    /\ last.kind = "row" /\ hist.rows >= 2

\* C3 as the specification states it: the header row has exactly column_count
\* names and its i-th name is the name of the i-th declared column.
C3_AsStated ==
    last.kind = "header" =>
        /\ Len(last.names) = Num(properties.column_count)
        /\ \A i \in 1..Len(last.names) :
              i <= Len(sas.column_names) /\ last.names[i] = sas.column_names[i]

\* C3, amended: the header row has one name for each Column constructed (one
\* per FormatAndLabel subheader processed), whatever column_count is, and its
\* i-th name is the name of the i-th declared column.
C3_HeaderNames ==
    last.kind = "header" =>
        /\ Len(last.names) = Len(sas.columns)
        /\ \A i \in 1..Len(last.names) :
              /\ i <= Len(sas.column_names)
              /\ last.names[i] = sas.column_names[i]
              /\ last.names[i] = sas.columns[i].name

C3_Witness ==
    /\ last.kind = "header"
    /\ Len(last.names) = 2
    /\ Num(properties.column_count) = 3

\* C4 as the specification states it: the call made after row_count data rows
\* have been returned returns null and closes the byte source, and the byte
\* source is not closed before row_count data rows have been returned.
C4_AsStated ==
    /\ (last.kind \notin {"none", "header"} /\ last.parsed_before /\ last.rows_before = Declared)
            => (last.kind = "null" /\ ~sas.open)
    /\ ~sas.open => hist.rows = Declared

\* C4, amended: the byte source is closed by the calls that return null and by
\* no other; a call returns null when current_row_in_file_index, which counts
\* the rows returned and the calls that failed while decoding one, has
\* reached row_count, and no call returns a row then. After row_count >= 1
\* rows have been returned the next call returns null and closes.
C4_Close ==
    /\ hist.rows <= sas.current_row_in_file_index
    /\ last.kind = "null" =>
            (~sas.open /\ last.index_before >= Num(properties.row_count))
    /\ last.kind \in {"header", "row", "error"} => sas.open = last.open_before
    /\ last.kind = "row" => last.index_before < Num(properties.row_count)
    /\ (Called /\ last.rows_before >= 1 /\ last.rows_before = Declared)
            => (last.kind = "null" /\ ~sas.open)

C4_Witness ==
    /\ last.kind = "null" /\ last.open_before /\ ~sas.open
    /\ hist.failed /\ hist.rows >= 1 /\ hist.rows < Declared

C6_AsStated ==
    [][hist.rows >= 1 => (properties' = properties /\ sas'.columns = sas.columns)]_vars

\* C8: a call that parses the header of a source of fewer than 288 bytes
\* fails with 'header too short' whatever the source holds, and the call that
\* parses the header from the first byte of a source of at least 288 bytes
\* that does not start with the magic number fails with 'magic number
\* mismatch'; either call reads no page and returns no row.
C8_HeaderRejected ==
    (Called /\ ~last.parsed_before) =>
        /\ file.size < HEADER_SIZE =>
              /\ last.kind = "error" /\ last.err = ErrHeaderShort
              /\ PageReads = {} /\ hist.rows = 0 /\ ~sas.parsed_header
        /\ (file.size >= HEADER_SIZE /\ 0 \notin file.magic_at /\ last.pos_before = 0) =>
              /\ last.kind = "error" /\ last.err = ErrMagic
              /\ PageReads = {} /\ hist.rows = 0 /\ ~sas.parsed_header

C8_Witness ==
    /\ Called /\ last.pos_before = 0
    /\ file.size > 0 /\ file.size < HEADER_SIZE /\ 0 \in file.magic_at
    /\ last.err = ErrHeaderShort

\* The data subheader a row was decoded from.
SubOf(row) == file.pages[row.page].subs[row.slot + 1]

\* C9: a row returned from a data subheader shorter than row_length, in a
\* file whose compression is set, was sliced from a decompressed buffer of
\* exactly row_length bytes; a call whose decompressor output has another
\* length fails and returns no row.
C9_RowLength ==
    /\ (last.kind = "row" /\ last.row.via \in {"sub", "rle"}
        /\ properties.compression # "null"
        /\ SubOf(last.row).length < Num(properties.row_length)) =>
            /\ last.row.via = "rle"
            /\ Len(last.row.buf) = Num(properties.row_length)
    /\ sas.current_row.via = "rle" => Len(sas.current_row.buf) = Num(properties.row_length)
    /\ last.err = ErrLength => (last.kind = "error" /\ hist.rows = last.rows_before)

C9_Witness ==
    /\ last.kind = "row" /\ last.row.via = "rle"
    /\ SubOf(last.row).length < Len(last.row.buf)
    /\ hist.rows >= 2

\* -------------------------------------------- the subheader handlers' claim

\* What the handler's subheader must find unset.
GuardedBy(sub) ==
    IF sub.sig = "row_size"
    THEN {"row_length", "row_count", "col_count_p1", "col_count_p2", "mix_page_row_count"}
    ELSE {"column_count"}

\* C7: a RowSize subheader that meets row_length, row_count, col_count_p1,
\* col_count_p2 or mix_page_row_count already set, or a ColumnSize subheader
\* that meets column_count already set, fails with a duplicate-subheader
\* error and leaves Properties as they were.
C7_Duplicates ==
    (sub_out # Idle /\ \E f \in GuardedBy(sub_in.sub) : sub_in.props[f] # Null) =>
        /\ sub_out[1].err \in DuplicateErrors
        /\ sub_out[1].props = sub_in.props

C7_Witness ==
    /\ sub_out # Idle
    /\ sub_in.sub.sig = "row_size"
    /\ sub_in.props.row_length = Null /\ sub_in.props.mix_page_row_count # Null
    /\ sub_out[1].err = ErrMixCount

\* ------------------------------------------------ the decompressor's claim

\* The bytes a record asks for after its control byte: the operand byte(s)
\* and the copy payload. The fill records (0xD0, 0xE0, 0xF0) and an unknown
\* control byte ask for none.
RecordNeeds(byte, next) ==
    LET control_byte == (byte \div 16) * 16
        end_of_first_byte == byte % 16
    IN  CASE control_byte = 0 -> 1 + next + 64 + end_of_first_byte * 256
          [] control_byte = 64 -> 2
          [] control_byte \in {96, 112, 192} -> 1
          [] control_byte = 128 -> end_of_first_byte + 1
          [] control_byte = 144 -> end_of_first_byte + 17
          [] control_byte = 160 -> end_of_first_byte + 33
          [] control_byte = 176 -> end_of_first_byte + 49
          [] OTHER -> 0

\* The stream page[offset .. offset+length-1], read record by record from
\* index i on, ends in the middle of a record. A control byte 0x0_ in the
\* last position is the end of the stream, no record.
RECURSIVE EndsMidRecord(_, _, _, _)
EndsMidRecord(page, offset, length, i) ==
    IF i >= length THEN FALSE
    ELSE LET byte == page[offset + i + 1]
             next == IF offset + i + 1 < Len(page) THEN page[offset + i + 2] ELSE 0
             needs == IF byte \div 16 = 0 /\ i = length - 1 THEN 0
                      ELSE RecordNeeds(byte, next)
         IN  IF i + needs >= length THEN TRUE
             ELSE EndsMidRecord(page, offset, length, i + needs + 1)

\* C10 as the specification states it: a stream that ends in the middle of a
\* record makes decompress_row fail with the length-mismatch error; it never
\* returns a row buffer.
C10_AsStated ==
    (rle_out # Idle /\ EndsMidRecord(rle_in.page, rle_in.offset, rle_in.length, 0)) =>
        rle_out[1].err = ErrLength

\* C10, the call decompress_row(0, 1, 3, [0xC0, 0x41]): the stream is the control
\* byte 0xC0 alone, its operand 'A' is the byte after the stream, and the
\* call returns the row buffer "AAA".
C10_Returned ==
    /\ rle_out # Idle
    /\ rle_in = [page |-> <<192, 65>>, offset |-> 0, length |-> 1, result_length |-> 3]
    /\ EndsMidRecord(rle_in.page, rle_in.offset, rle_in.length, 0)
    /\ rle_out[1] = RleOk(<<65, 65, 65>>)

\* ------------------------------------------------------ the fill records

\* The stream [0xE0, x, 0xC0, 'X', 0xF0, y] of C11, asked for 7 bytes.
FillStream(x, y) ==
    [page |-> <<224, x, 192, 88, 240, y>>, offset |-> 0, length |-> 6, result_length |-> 7]

\* C11 as the specification states it: a fill record takes two input bytes,
\* so that whatever the bytes x and y, [0xE0, x, 0xC0, 'X', 0xF0, y] with
\* result_length 7 decompresses to 0x20 0x20 'X' 'X' 'X' 0x00 0x00.
C11_AsStated ==
    (rle_out # Idle /\ \E x, y \in ByteSample : rle_in = FillStream(x, y)) =>
        rle_out[1] = RleOk(<<32, 32, 88, 88, 88, 0, 0>>)

\* C11, amended: a fill record (0xD0, 0xE0, 0xF0) takes one input byte. A
\* stream that starts with one decompresses to low nibble + 2 copies of the
\* fill character followed by what the stream from the next byte on
\* decompresses to, that byte being the next control byte; and
\* [0xE0, 0xC0, 'X', 0xF0] with result_length 7 gives
\* 0x20 0x20 'X' 'X' 'X' 0x00 0x00.
C11_FillOneByte ==
    rle_out # Idle =>
        LET page == rle_in.page
            byte == page[rle_in.offset + 1]
            Joined(rest) ==
                IF rest.err # NoErr THEN RleErr(rest.err)
                ELSE RleFinish(Repeat(FillChar((byte \div 16) * 16), (byte % 16) + 2) \o rest.out,
                               rle_in.result_length)
        IN  /\ FillChar((byte \div 16) * 16) >= 0 =>
                  rle_out[1] = Joined(RleLoop(page, rle_in.offset + 1, rle_in.length - 1, 0, <<>>))
            /\ page = <<224, 192, 88, 240>> =>
                  rle_out[1] = RleOk(<<32, 32, 88, 88, 88, 0, 0>>)

\* C11: the stream [0xE0, 0xE0, 0xC0, 'X', 0xF0, 0xE0] has been decompressed:
\* the second byte was read as a fill record of its own and the call failed
\* with 11 bytes for the 7 asked for.
C11_Witness ==
    /\ rle_out # Idle
    /\ rle_in = FillStream(224, 224)
    /\ rle_out[1] = RleErr(ErrLength)
    /\ RleLoop(rle_in.page, 0, 6, 0, <<>>).out = <<32, 32, 32, 32, 88, 88, 88, 0, 0, 32, 32>>

\* ------------------------------------------------- the schema on completion

\* The first readline call has parsed the header and walked the metadata, and
\* has read no row yet: it went on to the header row (or failed decoding the
\* names), so the instance is as parse_header left it.
SchemaComplete == Called /\ ~last.parsed_before /\ sas.parsed_header /\ HeaderDue

\* What a subheader of the file adds to the list its handler fills: the names
\* of a ColumnName subheader, the vectors of a ColumnAttributes subheader,
\* one column for a FormatAndLabel subheader.
SubHolds(sub, sig) ==
    IF sub.sig # sig \/ sub.length = 0 \/ sub.compression = TRUNCATED_SUBHEADER_ID THEN 0
    ELSE CASE sig = "column_name" -> Len(sub.v.names)
           [] sig = "column_attributes" -> Len(sub.v.attrs)
           [] OTHER -> 1

RECURSIVE PageHolds(_, _, _)
PageHolds(subs, sig, i) ==
    IF i > Len(subs) THEN 0 ELSE SubHolds(subs[i], sig) + PageHolds(subs, sig, i + 1)

\* The same over the pages the call read whose type has the subheaders processed.
RECURSIVE WalkHolds(_, _)
WalkHolds(sig, k) ==
    IF k > Len(last.reads) THEN 0
    ELSE (IF last.reads[k].page /\ TypeRead(last.reads[k]) \in PAGE_META_MIX_AMD
          THEN PageHolds(file.pages[last.reads[k].pidx].subs, sig, 1) ELSE 0)
         + WalkHolds(sig, k + 1)

\* C12 as the specification states it: on schema completion the five lists
\* have properties.column_count entries each.
C12_AsStated ==
    SchemaComplete =>
        /\ Len(sas.column_names) = Num(properties.column_count)
        /\ Len(sas.column_data_offsets) = Num(properties.column_count)
        /\ Len(sas.column_data_lengths) = Num(properties.column_count)
        /\ Len(sas.column_types) = Num(properties.column_count)
        /\ Len(sas.columns) = Num(properties.column_count)

\* C12, amended: on schema completion column_names has one entry per name of
\* the ColumnName subheaders walked, column_data_offsets, column_data_lengths
\* and column_types one per vector of the ColumnAttributes subheaders, and
\* columns one per FormatAndLabel subheader; the five lengths are
\* properties.column_count when the file holds that many of each, which the
\* walk does not verify.
C12_SchemaLengths ==
    SchemaComplete =>
        /\ Len(sas.column_names) = WalkHolds("column_name", 1)
        /\ Len(sas.column_data_offsets) = WalkHolds("column_attributes", 1)
        /\ Len(sas.column_data_lengths) = WalkHolds("column_attributes", 1)
        /\ Len(sas.column_types) = WalkHolds("column_attributes", 1)
        /\ Len(sas.columns) = WalkHolds("format_and_label", 1)
        /\ Len(sas.column_names_strings) = WalkHolds("column_text", 1)

\* C12: the metadata walk of a file that declares one column and holds two
\* names, two attribute vectors and two FormatAndLabel subheaders completed,
\* and so did the walk of a file that brings a third name on its second page.
C12_Witness ==
    /\ SchemaComplete
    /\ last.kind = "header"
    /\ \/ properties.column_count = Some(1) /\ Len(sas.column_names) = 2 /\ Len(sas.columns) = 2
       \/ properties.column_count = Some(2) /\ Len(sas.column_names) = 3
          /\ Len(sas.column_types) = 2

\* ------------------------------------------- the two readings of one file

\* The readline call made now by a reader built with alignCorrection = flag
\* that has come as far as this one.
CallWith(flag) ==
    readline(Entry([sas EXCEPT !.align_correction = flag], properties))

\* The two calls return the same and leave the same instance behind, the
\* option apart: the two readers stay in step, call after call.
SameOutcome(A, B) ==
    /\ A.ret = B.ret
    /\ A.S.err = B.S.err
    /\ A.S.props = B.S.props
    /\ A.S.reads = B.S.reads
    /\ [A.S.sas EXCEPT !.align_correction = TRUE] = [B.S.sas EXCEPT !.align_correction = TRUE]

\* The pad the correction computes for page k of the file.
PagePad(k) ==
    LET u64 == file.hdr.u64
    IN  ((IF u64 THEN PAGE_BIT_OFFSET_X64 ELSE PAGE_BIT_OFFSET_X86) + SUBHEADER_POINTERS_OFFSET
         + Len(file.pages[k].subs)
           * (IF u64 THEN SUBHEADER_POINTER_LENGTH_X64 ELSE SUBHEADER_POINTER_LENGTH_X86)) % 8

\* C13 as the specification states it: for a 32-bit file whose header has no
\* alignment adjustment, the reader with alignCorrection = false and the one
\* with alignCorrection = true return the same, call after call.
C13_AsStated ==
    (~file.hdr.u64 /\ file.hdr.align1 = 0) => SameOutcome(CallWith(FALSE), CallWith(TRUE))

\* C13, amended: for every file none of whose MIX pages has a non-zero pad
\* computed (a 32-bit file whose MIX pages have an even number of subheader
\* pointers), the two readers return the same, call after call.
C13_SameRows ==
    (\A k \in 1..Len(file.pages) : file.pages[k].type \in PAGE_MIX_TYPE => PagePad(k) = 0) =>
        SameOutcome(CallWith(FALSE), CallWith(TRUE))

\* C13: a reader with alignCorrection = false returned a row record of a MIX
\* page of 8 subheader pointers.
C13_Witness ==
    /\ Called /\ ~sas.align_correction
    /\ last.kind = "row" /\ last.row.via = "page"
    /\ file.pages[last.row.page].type \in PAGE_MIX_TYPE
    /\ PagePad(last.row.page) = 0
    /\ Len(file.pages[last.row.page].subs) = 8

\* ------------------------------------------------ the pad of a MIX page

\* C14: with alignment correction enabled the pad before the rows of a MIX
\* page of n subheader pointers is (16 + 8 + 12 n) mod 8 in the 32-bit layout
\* and (32 + 8 + 24 n) mod 8 in the 64-bit layout; it is 0 or 4 and the first
\* row, pad included, starts at a multiple of 8. With correction disabled the
\* pad is 0.
C14_Pad ==
    last # Idle =>
        LET n == Num(sas.current_page_subheaders_count)
            end == IF properties.u64 THEN 32 + 8 + n * 24 ELSE 16 + 8 + n * 12
            pad == last[1].align_correction
        IN  /\ sas.align_correction =>
                  /\ pad = end % 8
                  /\ pad \in {0, 4}
                  /\ last[1].offset = end + pad
                  /\ last[1].offset % 8 = 0
            /\ ~sas.align_correction => pad = 0 /\ last[1].offset = end

\* C14: the pad of a 32-bit MIX page of 7 subheader pointers was computed,
\* with correction enabled: 4, and the first row starts at 112.
C14_Witness ==
    /\ last # Idle
    /\ sas.align_correction /\ ~properties.u64
    /\ sas.current_page_subheaders_count = Some(7)
    /\ last[1] = [align_correction |-> 4, offset |-> 112]

\* ------------------------------------------------------ the date retry

\* A value of a date-formatted column has been decoded whose raw number,
\* taken as days since 1960-01-01, is no valid date.
DateOutOfRange ==
    /\ val_out # Idle
    /\ ValueFormat(val_in.format) = "date"
    /\ val_in.raw.kind # "nan"
    /\ ~NewDate(val_in.raw, "days").valid

RowOfPage ==
    /\ Called /\ last.decoded # <<>>
    /\ last.decoded[1].type \in PAGE_MIX_DATA_TYPE

\* The number of rows after which readline leaves that page.
RowLimit ==
    IF last.decoded[1].type = PAGE_DATA_TYPE THEN last.decoded[1].block_count
    ELSE Min(Num(properties.row_count), Num(properties.mix_page_row_count))

\* C16 as the specification states it: the reader goes on to the next page
\* exactly when the rows decoded from the current DATA page reach block_count,
\* from the current MIX page min(row_count, mix_page_row_count); no row is
\* decoded at an on-page index at or past that number.
C16_AsStated ==
    RowOfPage =>
        /\ last.decoded[1].index < RowLimit
        /\ last.parsed_before =>
              (Len(last.reads) > 0 <=> last.decoded[1].index + 1 = RowLimit)

\* C16, in the code: a DATA page whose block_count is 0 has had a second row
\* decoded from it, at an offset that holds no row record, and the reader
\* stays on the page.
C16_EmptyDataPage ==
    /\ RowOfPage
    /\ last.decoded[1].type = PAGE_DATA_TYPE
    /\ last.decoded[1].block_count = 0
    /\ last.decoded[1].pidx > 0
    /\ last.decoded[1].row.via = "stray"
    /\ last.decoded[1].index >= 1
    /\ last.reads = <<>>

\* ------------------------------------------------- the rows as returned

\* Row record a precedes row record b in the file.
Precedes(a, b) == a.page < b.page \/ (a.page = b.page /\ a.slot < b.slot)

\* C17 as the specification states it: a data row returned by readline was
\* decoded by that call, from a row record of the file (a row of a page or a
\* data subheader), one that follows the record of the row returned before.
C17_AsStated ==
    (Called /\ last.kind = "row") =>
        /\ last.decoded # <<>>
        /\ last.row = last.decoded[Len(last.decoded)].row
        /\ last.row.via \in {"page", "sub", "rle"}
        /\ last.returned_before # NoRow => Precedes(last.returned_before, last.row)

\* C17, in the code: a call that decoded nothing returned, as a data row, the
\* row a call before it had returned.
C17_StaleRow ==
    /\ Called /\ last.kind = "row"
    /\ last.decoded = <<>>
    /\ last.row # NoRow
    /\ last.row = last.returned_before
    /\ sas.current_page_type = Some(PAGE_META_TYPE)

\* ----------------------------------------------------- overlapping calls
\* The reads of a call are not interleaved with those of another: between two
\* reads of one call the log holds no read of another call.
Sequential(log) ==
    \A i, j, k \in 1..Len(log) : (i < j /\ j < k /\ log[i] = log[k]) => log[j] = log[i]

WellFormed == file.magic_at = {0} /\ file.hdr.endian = "little" /\ file.size >= 1024 + 4096

\* C18: whatever readline calls are issued, overlapping or not, the header is
\* parsed at most once and no two calls interleave their reads of the byte
\* source.
C18_AsStated == hist.parses <= 1 /\ Sequential(hist.log)

\* Two calls issued back to back on a well-formed file: each has started a
\* header parse and read 288 bytes, the first at 0 and the second at 288.
C18_Overlap ==
    /\ WellFormed
    /\ hist.parses = 2
    /\ hist.log = <<1, 2>>
    /\ calls[1].pc = "read288" /\ calls[1].at = 0
    /\ calls[2].pc = "read288" /\ calls[2].at = HEADER_SIZE

\* The same two calls after they have run on in the order they were issued:
\* both are rejected.
C18_BothRejected ==
    /\ WellFormed
    /\ hist.log = <<1, 2>>
    /\ calls[1].err = ErrBigEndian
    /\ calls[2].err = ErrMagic

\* ------------------------------------------------- page types and skipping
\* The pages whose header the latest call read in _read_next_page.
NextPages == {k \in DOMAIN last.paged : last.paged[k].by = "next"}

\* The latest read of the call found the byte source exhausted.
EndOfFile == last.reads # <<>> /\ last.reads[Len(last.reads)].n = 0

\* C19: when _read_next_page has returned after reading a full page, the
\* current page is a META, MIX or DATA page, unless the end of the file was
\* reached; and a page is followed by another read in the same call only if
\* its type is none of these.
C19_ReadTypes ==
    (Called /\ last.err = NoErr /\ NextPages # {}) =>
        /\ \A k \in NextPages : k < Len(last.paged) => last.paged[k].type \notin ReadTypes
        /\ Num(sas.current_page_type) \in ReadTypes \/ EndOfFile

\* A COMP page was skipped and the DATA page after it is the current page.
C19_Witness ==
    /\ Called /\ last.err = NoErr
    /\ \E k \in NextPages : k < Len(last.paged) /\ last.paged[k].type = PAGE_COMP_TYPE
    /\ sas.current_page_type = Some(PAGE_DATA_TYPE)
    /\ ~EndOfFile

\* C20, as stated: a page has its subheader-pointer array processed exactly
\* when its type is META, MIX or AMD, in the metadata walk and in row reading
\* alike.
C20_AsStated ==
    Called => \A k \in DOMAIN last.paged :
                 last.paged[k].processed <=> last.paged[k].type \in PAGE_META_MIX_AMD

\* C20, amended: in the metadata walk a page has its subheader-pointer array
\* processed exactly when its type is META, MIX or AMD; in row reading
\* (_read_next_page) exactly when its type is META.
C20_Processed ==
    Called => \A k \in DOMAIN last.paged :
                 last.paged[k].processed <=>
                     IF last.paged[k].by = "walk"
                     THEN last.paged[k].type \in PAGE_META_MIX_AMD
                     ELSE last.paged[k].type = PAGE_META_TYPE

\* A MIX page with a subheader pointer was read by _read_next_page and its
\* pointer array was left alone.
C20_Witness ==
    /\ Called
    /\ \E k \in NextPages :
          /\ last.paged[k].type \in PAGE_MIX_TYPE
          /\ last.paged[k].pidx > 0
          /\ file.pages[last.paged[k].pidx].subs # <<>>
          /\ ~last.paged[k].processed

\* ------------------------------------------------- subheader dispatch
\* The subheader of the pointer the latest iteration handled, and the state
\* the iteration found.
PtrSub == file.pages[1].subs[sub_out[1].i + 1]
PtrBefore == Entry(sub_out[1].sas, sub_out[1].props)
PtrAfter == [PtrBefore EXCEPT !.sas = sas, !.props = properties, !.err = sub_out[1].err]

\* The pointer is not an empty slot and not truncated: its signature is read.
PtrRead == PtrSub.length # 0 /\ PtrSub.compression # TRUNCATED_SUBHEADER_ID

\* The conditions under which a subheader of no known signature holds a row.
PtrHoldsRow ==
    /\ sub_out[1].props.compression # "null"
    /\ PtrSub.compression \in {COMPRESSED_SUBHEADER_ID, 0}
    /\ PtrSub.type = COMPRESSED_SUBHEADER_TYPE

OfFamily == "family" \in DOMAIN rle_in

\* C22: the record of each control-byte family gives the bytes of the table's
\* Effect column (after the two '@' of each fill record before it), and
\* decompress_row returns them.
C22_Effect ==
    (OfFamily /\ rle_out # Idle) =>
        rle_out[1] = RleOk(Repeat(64, 2 * rle_in.family[1])
                           \o Effect(rle_in.page, rle_in.offset + rle_in.family[1],
                                     rle_in.length, rle_in.family[1]))

\* A long copy (0x01, next 2: 322 bytes) at index 1 of its stream was decoded.
C22_Witness ==
    /\ OfFamily /\ rle_out # Idle
    /\ rle_in.family = <<1, FALSE>>
    /\ rle_in.page[rle_in.offset + 2] = 1
    /\ rle_in.page[rle_in.offset + 3] = 2
    /\ Len(rle_out[1].buf) = 2 + 322

\* ------------------------------------------------------ values of a row
\* The columns (0-based) among the first column_count that a decoded row met
\* with length 0.
ZeroColumns(d) ==
    {i \in 0..(d.column_count - 1) : i < Len(d.lengths) /\ d.lengths[i + 1] = 0}

\* C23: a decoded row has as many values as there are columns before the
\* first column of length 0, and column_count values when no column has
\* length 0.
C23_RowValues ==
    Called => \A k \in DOMAIN last.decoded :
                 last.decoded[k].row.n =
                     IF ZeroColumns(last.decoded[k]) = {} THEN last.decoded[k].column_count
                     ELSE CHOOSE i \in ZeroColumns(last.decoded[k]) :
                              \A j \in ZeroColumns(last.decoded[k]) : i <= j

\* A row of two declared columns, the second of length 0, was decoded with
\* one value.
C23_Witness ==
    /\ Called /\ last.kind = "row"
    /\ last.decoded # <<>>
    /\ last.decoded[1].lengths = <<3, 0>>
    /\ last.decoded[1].column_count = 2
    /\ last.row.n = 1

\* ------------------------------------------------- number column decoding
\* A format is of a set when it is one of the set's own strings or one of the
\* strings given for it to the constructor.
InSet(own, extra, format) == format \in own \/ Includes(extra.v, format)

\* C24: a number column of 1 or 2 bytes is decoded as a 16-bit integer,
\* without error; a longer one as a time when its format is of the TIME set,
\* else as a datetime when it is of the DATETIME set, else as a date when it
\* is of the DATE set, else as a number, the sets holding the strings given
\* to the constructor too.
C24_AsStated ==
    val_out # Idle =>
        IF val_in.length <= 2
        THEN val_out[1].fmt = "h" /\ val_out[1].err = NoErr
        ELSE val_out[1].fmt =
                IF InSet({"TIME"}, val_in.extra.time, val_in.format) THEN "time"
                ELSE IF InSet({"DATETIME"}, val_in.extra.datetime, val_in.format)
                     THEN "datetime"
                ELSE IF InSet(DATE_FORMAT_STRINGS, val_in.extra.date, val_in.format)
                     THEN "date"
                ELSE "number"

\* A number column of 1 byte: readInt16LE threw.
C24_OneByte ==
    /\ val_out # Idle
    /\ val_in.length = 1
    /\ val_out[1].err = ErrRange

\* ------------------------------------------------- the bytes of numbers
ShortDouble == val_out # Idle /\ val_in.fmt = "number" /\ val_in.size < DoubleSize

Padding == [k \in 1..(DoubleSize - val_in.size) |-> 0]

\* C25 as stated: a field of fewer than 8 bytes is extended with zero bytes
\* before its bytes in a big-endian file and after them in a little-endian
\* file.
C25_AsStated ==
    ShortDouble =>
        val_out[1].padded = IF val_in.endianess = "big" THEN Padding \o val_in.raw
                            ELSE val_in.raw \o Padding

\* C25: a field of fewer than 8 bytes is extended with zero bytes before its
\* bytes in a little-endian file and after them in a big-endian file, and the
\* 8 bytes are decoded as a binary64 value: the value whose leading bytes,
\* most significant first, are the field's and whose other bytes are zero.
C25_Padded ==
    ShortDouble =>
        /\ val_out[1].padded = IF val_in.endianess = "little" THEN Padding \o val_in.raw
                               ELSE val_in.raw \o Padding
        /\ val_out[1].val =
              (IF val_in.endianess = "little" THEN Reverse(val_in.raw) ELSE val_in.raw)
              \o Padding

\* A little-endian field of 3 bytes, none of them zero, has been read.
C25_Witness ==
    /\ ShortDouble
    /\ val_in.endianess = "little"
    /\ val_in.raw = <<63, 240, 63>>
    /\ val_out[1].val = <<63, 240, 63, 0, 0, 0, 0, 0>>

\* ------------------------------------------------- 8-byte integers
\* The 8 bytes of the field, most significant first.
Encoded == IF val_in.endianess = "big" THEN val_in.raw ELSE Reverse(val_in.raw)

LongInt == val_out # Idle /\ val_in.fmt = "i" /\ val_in.u64 /\ val_in.size = 8

\* C26: in the 64-bit layout, an 8-byte integer whose upper 2 bytes are zero
\* is read as the integer the field encodes, in little-endian and in
\* big-endian files.
C26_AsStated ==
    (LongInt /\ Encoded[1] = 0 /\ Encoded[2] = 0) => val_out[1].val = Encoded

\* A big-endian field holding 1 has been read as 0.
C26_HighBytes ==
    /\ LongInt
    /\ val_in.endianess = "big"
    /\ val_in.raw = <<0, 0, 0, 0, 0, 0, 0, 1>>
    /\ val_out[1].val = <<0, 0, 0, 0, 0, 0, 0, 0>>

\* A little-endian field holding 2^47 has been read as -2^47.
C26_Negative ==
    /\ LongInt
    /\ val_in.endianess = "little"
    /\ val_in.raw = <<0, 0, 0, 0, 0, 128, 0, 0>>
    /\ val_out[1].val = <<255, 255, 128, 0, 0, 0, 0, 0>>

\* ------------------------------------------------- big-endian headers
\* The first call on a file whose header is whole, starts with the magic
\* number and has a byte 37 other than 0x01.
BigEndianCall ==
    /\ last.kind # "none"
    /\ ~last.parsed_before /\ last.pos_before = 0
    /\ file.hdr.endian = "big"
    /\ 0 \in file.magic_at
    /\ file.size >= file.hdr.header_length

\* C27: header parsing of a big-endian file succeeds (its text fields decoded
\* as those of a little-endian file holding the same bytes): the call does
\* not fail in parse, and the header's fields are set.
C27_AsStated ==
    BigEndianCall =>
        /\ last.err \notin {ErrHeaderShort, ErrMagic, ErrBigEndian}
        /\ properties.header_length # Null
        /\ properties.page_length # Null

\* The call on a big-endian file has failed at the first text field, the
\* dataset name, with no later field of the header set.
C27_Witness ==
    /\ BigEndianCall
    /\ last.err = ErrBigEndian
    /\ properties.endianess = "big"
    /\ properties.header_length = Null
    /\ ~sas.parsed_header

\* ------------------------------------------------- after the last row
\* C28: once a readline call has returned null, every later call returns
\* null too, reads no byte of the file (file_pos as before the call) and
\* leaves current_row_in_file_index as it was.
C28_NullStays ==
    (last.kind # "none" /\ last.ended_before) =>
        /\ last.kind = "null"
        /\ last.reads = <<>>
        /\ sas.file_pos = last.pos_before
        /\ sas.current_row_in_file_index = last.index_before

\* A call made after null was returned, on a file of which rows and the
\* header row had been returned.
C28_Witness ==
    /\ last.ended_before
    /\ last.kind = "null"
    /\ hist.rows >= 2
    /\ hist.headers = 1
    /\ sas.file_pos > file.hdr.header_length

\* ------------------------------------------------- after a failed header
\* C29: once a readline call has failed in parse with 'header too short' or
\* 'magic number mismatch', every later call fails as well: none parses a
\* header that starts at an offset other than 0, none returns a row.
C29_AsStated ==
    (last.kind # "none" /\ last.header_failed_before) =>
        /\ last.kind = "error"
        /\ ~(sas.parsed_header /\ ~last.parsed_before /\ last.pos_before # 0)

\* After a call that failed on the magic number, a call has parsed the header
\* that stands at offset 288.
C29_Reparsed ==
    /\ last.header_failed_before
    /\ ~last.parsed_before /\ last.pos_before = HEADER_SIZE
    /\ sas.parsed_header
    /\ last.kind = "header"

\* ... and a later call has returned a row.
C29_Row ==
    /\ last.header_failed_before
    /\ hist.header_failed
    /\ last.kind = "row"
    /\ last.row.page = 1

\* ------------------------------------------------- the page loops end
\* The iteration took page_length bytes, more than none.
Consumed(s) ==
    /\ s.page_length > 0 /\ s.n = s.page_length
    /\ sas.file_pos = s.at + s.page_length

\* The iteration read no byte and its loop is over.
StoppedBy(s) ==
    /\ s.n = 0 /\ sas.file_pos = s.at
    /\ s.pc = IF s.from = "walk" THEN "walked" ELSE "returned"

\* The iteration failed on a page it could not read whole.
Incomplete(s) ==
    /\ s.n # s.page_length
    /\ s.pc = "failed"
    /\ s.err = IF s.from = "walk" THEN ErrMetaPage ELSE ErrPage

\* C30 as stated: every iteration of the metadata walk and of the page skip
\* either consumes exactly page_length > 0 bytes, or stops at the end of the
\* file, or fails on an incomplete page.
C30_AsStated ==
    sub_out # Idle =>
        \/ Consumed(sub_out[1])
        \/ StoppedBy(sub_out[1]) /\ sub_out[1].at >= file.size
        \/ Incomplete(sub_out[1])

\* C30: the metadata walk and the page skip end, whatever page_length the
\* header gives: every iteration either consumes exactly page_length > 0
\* bytes, or stops on a read of no byte (at the end of the file, or when
\* page_length is not positive), or fails on an incomplete page; and a loop
\* goes on only after an iteration that consumed page_length > 0 bytes that
\* the file holds.
C30_Iteration ==
    sub_out # Idle =>
        /\ \/ Consumed(sub_out[1])
           \/ /\ StoppedBy(sub_out[1])
              /\ sub_out[1].at >= file.size \/ sub_out[1].page_length <= 0
           \/ Incomplete(sub_out[1])
        /\ sub_out[1].pc \in {"walk", "skip"} =>
              Consumed(sub_out[1]) /\ sas.file_pos <= file.size

\* The skip has gone over a page of another type to the end of the file.
C30_Witness ==
    /\ sub_out # Idle
    /\ sub_out[1].from = "skip"
    /\ StoppedBy(sub_out[1])
    /\ sub_out[1].at = file.size
    /\ sub_out[1].page_length = 4096
====
